---- MODULE Spec2Model ----
(***************************************************************************)
(* ResumeForge synthesis pipeline: LLMService.structure_resume and the     *)
(* response recoverer, schema reconciler and schema validator behind it.   *)
(*                                                                         *)
(* Text is a sequence of symbols.  Punctuation, whitespace and the letters *)
(* of the code fence are one symbol per character; a word (a JSON key, the *)
(* content of a JSON string, a word of prose) is one symbol.  No word      *)
(* holds a quote, a brace, a bracket, a backquote, a backslash or          *)
(* whitespace at its ends, and the texts hold no number or boolean         *)
(* literal, so that on these texts the symbol-level operations below       *)
(* agree with Python's character-level ones.                               *)
(***************************************************************************)
EXTENDS Integers, Sequences, FiniteSets, TLC

Q == "\""

WS == {" ", "\n", "\r"}

--------------------------------------------------------------------------
(* Python str operations used by the service *)

RECURSIVE LStrip(_)
LStrip(s) ==
    IF s # <<>> /\ Head(s) \in WS THEN LStrip(Tail(s)) ELSE s

RECURSIVE RStrip(_)
RStrip(s) ==
    IF s # <<>> /\ s[Len(s)] \in WS THEN RStrip(SubSeq(s, 1, Len(s) - 1)) ELSE s

Strip(s) == RStrip(LStrip(s))

StartsWith(s, p) == Len(p) <= Len(s) /\ SubSeq(s, 1, Len(p)) = p

EndsWith(s, p) == Len(p) <= Len(s) /\ SubSeq(s, Len(s) - Len(p) + 1, Len(s)) = p

Occurrences(s, p) == {i \in 0..(Len(s) - Len(p)) : SubSeq(s, i + 1, i + Len(p)) = p}

\* str.find: the 0-based index of the first occurrence, -1 when there is none
Find(s, p) ==
    LET hits == Occurrences(s, p)
    IN  IF hits = {} THEN -1 ELSE CHOOSE i \in hits : \A j \in hits : i <= j

\* a search for the last occurrence that returns the first
RFindFirst(s, p) == Find(s, p)

\* str.rfind: the 0-based index of the last occurrence, -1 when there is none
RFind(s, p) ==
    LET hits == Occurrences(s, p)
    IN  IF hits = {} THEN -1 ELSE CHOOSE i \in hits : \A j \in hits : j <= i

\* s[a:b] for 0 <= a and 0 <= b
Slice(s, a, b) == SubSeq(s, a + 1, b)

--------------------------------------------------------------------------
(* JSON values and json.loads *)

JNull == [t |-> "null"]

JStr(s) == [t |-> "str", s |-> s]

JArr(a) == [t |-> "arr", a |-> a]

JObj(o) == [t |-> "obj", o |-> o]

IsNull(v) == v.t = "null"

IsStr(v) == v.t = "str"

IsList(v) == v.t = "arr"

IsDict(v) == v.t = "obj"

ParseFail == [ok |-> FALSE, v |-> JNull, i |-> 0]

ParseOk(v, i) == [ok |-> TRUE, v |-> v, i |-> i]

RECURSIVE ConcatAtoms(_)
ConcatAtoms(a) == IF a = <<>> THEN "" ELSE Head(a) \o ConcatAtoms(Tail(a))

RECURSIVE SkipWs(_, _)
SkipWs(s, i) == IF i <= Len(s) /\ s[i] \in WS THEN SkipWs(s, i + 1) ELSE i

\* s[i] is an opening quote: the string runs to the next quote; a raw newline
\* inside it is an invalid control character
ParseString(s, i) ==
    LET closes == {j \in (i + 1)..Len(s) : s[j] = Q}
    IN  IF closes = {} THEN ParseFail
        ELSE LET j == CHOOSE c \in closes : \A d \in closes : c <= d
                 body == SubSeq(s, i + 1, j - 1)
             IN  IF \E k \in 1..Len(body) : body[k] = "\n" THEN ParseFail
                 ELSE ParseOk(JStr(ConcatAtoms(body)), j + 1)

RECURSIVE ParseValue(_, _), ParseMembers(_, _, _), ParseElements(_, _, _)

ParseValue(s, i0) ==
    LET i == SkipWs(s, i0)
    IN  IF i > Len(s) THEN ParseFail
        ELSE IF s[i] = Q THEN ParseString(s, i)
        ELSE IF s[i] = "null" THEN ParseOk(JNull, i + 1)
        ELSE IF s[i] = "{" THEN
            LET j == SkipWs(s, i + 1)
            IN  IF j <= Len(s) /\ s[j] = "}" THEN ParseOk(JObj(<<>>), j + 1)
                ELSE ParseMembers(s, j, <<>>)
        ELSE IF s[i] = "[" THEN
            LET j == SkipWs(s, i + 1)
            IN  IF j <= Len(s) /\ s[j] = "]" THEN ParseOk(JArr(<<>>), j + 1)
                ELSE ParseElements(s, j, <<>>)
        ELSE ParseFail

\* i is past the whitespace before a key; a repeated key keeps its last value
ParseMembers(s, i, acc) ==
    IF i > Len(s) \/ s[i] # Q THEN ParseFail
    ELSE LET k == ParseString(s, i)
         IN  IF ~k.ok THEN ParseFail
             ELSE LET c == SkipWs(s, k.i)
                  IN  IF c > Len(s) \/ s[c] # ":" THEN ParseFail
                      ELSE LET v == ParseValue(s, c + 1)
                           IN  IF ~v.ok THEN ParseFail
                               ELSE LET acc2 == (k.v.s :> v.v) @@ acc
                                        n == SkipWs(s, v.i)
                                    IN  IF n > Len(s) THEN ParseFail
                                        ELSE IF s[n] = "}" THEN ParseOk(JObj(acc2), n + 1)
                                        ELSE IF s[n] = ","
                                             THEN ParseMembers(s, SkipWs(s, n + 1), acc2)
                                        ELSE ParseFail

ParseElements(s, i, acc) ==
    LET v == ParseValue(s, i)
    IN  IF ~v.ok THEN ParseFail
        ELSE LET acc2 == Append(acc, v.v)
                 n == SkipWs(s, v.i)
             IN  IF n > Len(s) THEN ParseFail
                 ELSE IF s[n] = "]" THEN ParseOk(JArr(acc2), n + 1)
                 ELSE IF s[n] = "," THEN ParseElements(s, n + 1, acc2)
                 ELSE ParseFail

\* json.loads: one value, whitespace around it, nothing else
JsonLoads(s) ==
    LET r == ParseValue(s, 1)
    IN  IF r.ok /\ SkipWs(s, r.i) > Len(s)
        THEN [ok |-> TRUE, v |-> r.v]
        ELSE [ok |-> FALSE, v |-> JNull]

--------------------------------------------------------------------------
(* LLMService.structure_resume, lines 218-225: the code fence is cut off *)

\* the backquote character (a TLA+ string cannot hold one)
BQ == "<backquote>"

FenceOpen == <<BQ, BQ, BQ, "j", "s", "o", "n">>

FenceClose == <<BQ, BQ, BQ>>

FenceOpenLen == 7

FenceCloseLen == 3

CleanContent(content) ==
    LET c1 == Strip(content)
        c2 == IF StartsWith(c1, FenceOpen) THEN Slice(c1, FenceOpenLen, Len(c1)) ELSE c1
        c3 == IF EndsWith(c2, FenceClose) THEN Slice(c2, 0, Len(c2) - FenceCloseLen) ELSE c2
    IN  Strip(c3)

--------------------------------------------------------------------------
(* LLMService._attempt_json_repair *)

\* the markers with the bare brace tried first
MarkersBraceFirst ==
    << <<"{">>,
       <<"{", Q, "structured_resume", Q, ":">>,
       <<Q, "structured_resume", Q, ":">> >>

Markers ==
    << <<"{", Q, "structured_resume", Q, ":">>,
       <<Q, "structured_resume", Q, ":">>,
       <<"{">> >>

\* the candidate of one marker: has is FALSE when the marker is absent or no
\* closing brace follows its first occurrence
MarkerCandidate(content, marker) ==
    LET start == Find(content, marker)
        end == RFind(content, <<"}">>) + 1
    IN  IF start = -1 \/ ~(end > start) THEN [has |-> FALSE, text |-> <<>>]
        ELSE LET candidate == Slice(content, start, end)
             IN  [has |-> TRUE,
                  text |-> IF StartsWith(candidate, <<"{">>) THEN candidate
                           ELSE <<"{">> \o candidate]

RECURSIVE RepairFrom(_, _)
RepairFrom(content, m) ==
    IF m > Len(Markers) THEN [ok |-> FALSE, v |-> JNull, marker |-> 0]
    ELSE LET c == MarkerCandidate(content, Markers[m])
         IN  IF c.has /\ JsonLoads(c.text).ok
             THEN [ok |-> TRUE, v |-> JsonLoads(c.text).v, marker |-> m]
             ELSE RepairFrom(content, m + 1)

AttemptJsonRepair(content) == RepairFrom(content, 1)

\* a recoverer that tries the markers before the direct parse
RecoverObjectRepairFirst(content) ==
    LET repaired == AttemptJsonRepair(content)
        direct == JsonLoads(content)
    IN  IF repaired.ok THEN repaired
        ELSE [ok |-> direct.ok, v |-> direct.v, marker |-> 0]

\* _parse_response, lines 234-242: marker 0 is the direct parse
RecoverObject(content) ==
    LET direct == JsonLoads(content)
    IN  IF direct.ok THEN [ok |-> TRUE, v |-> direct.v, marker |-> 0]
        ELSE AttemptJsonRepair(content)

--------------------------------------------------------------------------
(* LLMService._normalize_schema *)

\* Python truth value of a JSON value
Truthy(v) ==
    CASE IsNull(v) -> FALSE
      [] IsStr(v) -> v.s # ""
      [] IsList(v) -> v.a # <<>>
      [] IsDict(v) -> DOMAIN v.o # {}

\* d[to] = d.pop(from)
PopInto(o, from, to) ==
    [k \in (DOMAIN o \ {from}) \cup {to} |-> IF k = to THEN o[from] ELSE o[k]]

\* an alias that replaces the canonical key whenever the alias is there
ApplyAliasOverwrite(o, canonical, alias) ==
    IF alias \in DOMAIN o THEN PopInto(o, alias, canonical) ELSE o

\* "if canonical not in entry and alias in entry: entry[canonical] = entry.pop(alias)"
ApplyAlias(o, canonical, alias) ==
    IF canonical \notin DOMAIN o /\ alias \in DOMAIN o
    THEN PopInto(o, alias, canonical)
    ELSE o

\* a string description left as it is
WrapDescriptionNever(o) == o

\* lines 288-289
WrapDescription(o) ==
    IF "description" \in DOMAIN o /\ IsStr(o["description"])
    THEN [o EXCEPT !["description"] = JArr(<<o["description"]>>)]
    ELSE o

NormalizeExperience(entry) ==
    IF ~IsDict(entry) THEN entry
    ELSE JObj(WrapDescription(
             ApplyAlias(ApplyAlias(entry.o, "role", "title"), "organization", "company")))

\* the education aliases tried in the other order
NormalizeEducationUniversityFirst(entry) ==
    IF ~IsDict(entry) THEN entry
    ELSE JObj(ApplyAlias(ApplyAlias(entry.o, "institution", "university"),
                         "institution", "school"))

NormalizeEducation(entry) ==
    IF ~IsDict(entry) THEN entry
    ELSE JObj(ApplyAlias(ApplyAlias(entry.o, "institution", "school"),
                         "institution", "university"))

NormalizeProject(entry) ==
    IF ~IsDict(entry) THEN entry
    ELSE JObj(ApplyAlias(ApplyAlias(entry.o, "highlights", "achievements"),
                         "highlights", "bullets"))

NormalizeEntry(section, entry) ==
    CASE section = "experience" -> NormalizeExperience(entry)
      [] section = "education" -> NormalizeEducation(entry)
      [] section = "projects" -> NormalizeProject(entry)

\* one section of the resume: touched only when it is present and a list
NormalizeSection(o, section) ==
    IF section \in DOMAIN o /\ IsList(o[section])
    THEN [o EXCEPT ![section] =
              JArr([i \in 1..Len(o[section].a) |-> NormalizeEntry(section, o[section].a[i])])]
    ELSE o

\* a reconciler that builds a new object around the reconciled resume
NormalizeSchemaResumeOnly(data) ==
    IF ~IsDict(data) THEN [ok |-> FALSE, v |-> data]
    ELSE IF "structured_resume" \notin DOMAIN data.o
              \/ ~Truthy(data.o["structured_resume"])
         THEN [ok |-> TRUE, v |-> data]
    ELSE IF ~IsDict(data.o["structured_resume"]) THEN [ok |-> FALSE, v |-> data]
    ELSE [ok |-> TRUE,
          v |-> JObj([k \in {"structured_resume"} |->
                     JObj(NormalizeSection(NormalizeSection(NormalizeSection(
                         data.o["structured_resume"].o,
                         "experience"), "education"), "projects"))])]

\* ok is FALSE where the code raises AttributeError (.get on a value that is
\* no dict); the caller turns it into the schema error
NormalizeSchema(data) ==
    IF ~IsDict(data) THEN [ok |-> FALSE, v |-> data]
    ELSE IF "structured_resume" \notin DOMAIN data.o
              \/ ~Truthy(data.o["structured_resume"])
         THEN [ok |-> TRUE, v |-> data]
    ELSE IF ~IsDict(data.o["structured_resume"]) THEN [ok |-> FALSE, v |-> data]
    ELSE [ok |-> TRUE,
          v |-> JObj([data.o EXCEPT !["structured_resume"] =
                     JObj(NormalizeSection(NormalizeSection(NormalizeSection(
                         data.o["structured_resume"].o,
                         "experience"), "education"), "projects"))])]

--------------------------------------------------------------------------
(* schemas/resume_schema.py: the pydantic models.  A field is described by *)
(* its kind (the annotation and validator) and whether it is required.     *)

\* str.lower on the words it is applied to: sources, actions, confidences and
\* skills; every other such word of the model's texts is lower-case
LowerMap ==
    [Resume |-> "resume", GITHUB |-> "github", Both |-> "both",
     Included |-> "included", HIGH |-> "high", Python |-> "python",
     PYTHON |-> "python", Go |-> "go", Docker |-> "docker",
     Engineer |-> "engineer", Acme |-> "acme", MIT |-> "mit", BSc |-> "bsc"]
    @@ (".PDF" :> ".pdf") @@ (".MD" :> ".md") @@ (".TeX" :> ".tex")

Lower(s) == IF s \in DOMAIN LowerMap THEN LowerMap[s] ELSE s

\* EmailStr (the email-validator package), on the addresses of the model's texts
ValidEmail(s) == s \in {"ann@example.org"}

AllowedSources == {"resume", "github", "both"}

AllowedActions == {"included", "excluded", "merged", "normalized"}

AllowedConfidences == {"high", "medium", "low"}

\* Project.validate_source
validate_source(v) == [ok |-> Lower(v) \in AllowedSources, v |-> Lower(v)]

\* DecisionLogEntry.validate_action
validate_action(v) == [ok |-> Lower(v) \in AllowedActions, v |-> Lower(v)]

\* DecisionLogEntry.validate_confidence
validate_confidence(v) == [ok |-> Lower(v) \in AllowedConfidences, v |-> Lower(v)]

\* Education.validate_gpa: v.strip(); no word of the texts has whitespace at its ends
validate_gpa(v) == v

Fd(kind, req) == [kind |-> kind, req |-> req]

ContactInfo ==
    [full_name |-> Fd("optstr", FALSE), email |-> Fd("email", FALSE),
     phone |-> Fd("optstr", FALSE), location |-> Fd("optstr", FALSE),
     github |-> Fd("optstr", FALSE), linkedin |-> Fd("optstr", FALSE),
     website |-> Fd("optstr", FALSE)]

TechnicalSkills ==
    [languages |-> Fd("strlist", FALSE), frameworks_libraries |-> Fd("strlist", FALSE),
     tools_platforms |-> Fd("strlist", FALSE), databases |-> Fd("strlist", FALSE),
     other |-> Fd("strlist", FALSE)]

Project ==
    [name |-> Fd("str", TRUE), description |-> Fd("str", TRUE),
     technologies |-> Fd("strlist", TRUE), source |-> Fd("source", TRUE),
     url |-> Fd("optstr", FALSE), highlights |-> Fd("strlist", FALSE),
     start_date |-> Fd("optstr", FALSE), end_date |-> Fd("optstr", FALSE)]

Education ==
    [degree |-> Fd("str", TRUE), institution |-> Fd("str", TRUE),
     location |-> Fd("optstr", FALSE), graduation_date |-> Fd("optstr", FALSE),
     gpa |-> Fd("gpa", FALSE), relevant_coursework |-> Fd("strlist", FALSE),
     honors |-> Fd("strlist", FALSE)]

Experience ==
    [role |-> Fd("str", TRUE), organization |-> Fd("str", TRUE),
     location |-> Fd("optstr", FALSE), start_date |-> Fd("optstr", FALSE),
     end_date |-> Fd("optstr", FALSE), description |-> Fd("strlist", TRUE),
     technologies |-> Fd("strlist", FALSE)]

Certification ==
    [name |-> Fd("str", TRUE), issuer |-> Fd("optstr", FALSE),
     date |-> Fd("optstr", FALSE), credential_id |-> Fd("optstr", FALSE),
     url |-> Fd("optstr", FALSE)]

CanonicalResume ==
    [contact |-> Fd("ContactInfo", TRUE), summary |-> Fd("optstr", FALSE),
     technical_skills |-> Fd("TechnicalSkills", FALSE),
     projects |-> Fd("Projects", FALSE), education |-> Fd("Educations", FALSE),
     experience |-> Fd("Experiences", FALSE),
     certifications |-> Fd("Certifications", FALSE),
     additional_info |-> Fd("optstr", FALSE)]

DecisionLogEntry ==
    [section |-> Fd("str", TRUE), action |-> Fd("action", TRUE),
     items |-> Fd("strlist", TRUE), reason |-> Fd("str", TRUE),
     source |-> Fd("str", TRUE), confidence |-> Fd("confidence", TRUE)]

ModelSchema(model) ==
    CASE model = "ContactInfo" -> ContactInfo
      [] model = "TechnicalSkills" -> TechnicalSkills
      [] model = "Project" -> Project
      [] model = "Education" -> Education
      [] model = "Experience" -> Experience
      [] model = "Certification" -> Certification
      [] model = "CanonicalResume" -> CanonicalResume
      [] model = "DecisionLogEntry" -> DecisionLogEntry

\* the kinds that are a nested model, and those that are a List of models
ModelKinds == {"ContactInfo", "TechnicalSkills"}

ListKinds ==
    [Projects |-> "Project", Educations |-> "Education",
     Experiences |-> "Experience", Certifications |-> "Certification"]

RECURSIVE FieldOK(_, _), ModelOK(_, _), Convert(_, _), Build(_, _)

\* pydantic's validation of one field value (lax mode over JSON values)
FieldOK(kind, v) ==
    CASE kind = "str" -> IsStr(v)
      [] kind = "optstr" -> IsNull(v) \/ IsStr(v)
      [] kind = "gpa" -> IsNull(v) \/ IsStr(v)
      [] kind = "email" -> IsNull(v) \/ (IsStr(v) /\ ValidEmail(v.s))
      [] kind = "strlist" -> IsList(v) /\ \A i \in 1..Len(v.a) : IsStr(v.a[i])
      [] kind = "source" -> IsStr(v) /\ validate_source(v.s).ok
      [] kind = "action" -> IsStr(v) /\ validate_action(v.s).ok
      [] kind = "confidence" -> IsStr(v) /\ validate_confidence(v.s).ok
      [] kind \in ModelKinds -> ModelOK(kind, v)
      [] kind \in DOMAIN ListKinds ->
            IsList(v) /\ \A i \in 1..Len(v.a) : ModelOK(ListKinds[kind], v.a[i])

\* Model(**v): v must be a mapping; extra keys are ignored
ModelOK(model, v) ==
    /\ IsDict(v)
    /\ LET S == ModelSchema(model)
       IN  \A f \in DOMAIN S :
               IF f \in DOMAIN v.o THEN FieldOK(S[f].kind, v.o[f]) ELSE ~S[f].req

\* the value a field has when the input leaves it out
Default(kind) ==
    CASE kind \in {"strlist"} \cup DOMAIN ListKinds -> JArr(<<>>)
      [] kind = "TechnicalSkills" ->
            JObj([f \in DOMAIN TechnicalSkills |-> JArr(<<>>)])
      [] OTHER -> JNull

\* the value a valid field holds after validation
Convert(kind, v) ==
    CASE kind = "source" -> JStr(validate_source(v.s).v)
      [] kind = "action" -> JStr(validate_action(v.s).v)
      [] kind = "confidence" -> JStr(validate_confidence(v.s).v)
      [] kind = "gpa" -> IF IsNull(v) THEN v ELSE JStr(validate_gpa(v.s))
      [] kind \in ModelKinds -> Build(kind, v)
      [] kind \in DOMAIN ListKinds ->
            JArr([i \in 1..Len(v.a) |-> Build(ListKinds[kind], v.a[i])])
      [] OTHER -> v

\* the validated model, every field populated (as model_dump shows it)
Build(model, v) ==
    LET S == ModelSchema(model)
    IN  JObj([f \in DOMAIN S |->
                 IF f \in DOMAIN v.o THEN Convert(S[f].kind, v.o[f])
                 ELSE Default(S[f].kind)])

--------------------------------------------------------------------------
(* LLMService._parse_response, lines 245-265 *)

\* "for entry in decision_log_data": a list yields its elements, a dict its
\* keys, a str its characters (each a str, stood for by one str here: every
\* str is rejected alike by DecisionLogEntry(**entry))
IterItems(v) ==
    CASE IsList(v) -> v.a
      [] IsDict(v) ->
            LET RECURSIVE Keys(_)
                Keys(K) == IF K = {} THEN <<>>
                           ELSE LET k == CHOOSE x \in K : TRUE
                                IN  <<JStr(k)>> \o Keys(K \ {k})
            IN  Keys(DOMAIN v.o)
      [] IsStr(v) -> IF v.s = "" THEN <<>> ELSE <<JStr(v.s)>>

\* the loop of lines 255-259: an entry that does not validate is skipped
RECURSIVE ParseDecisionLog(_)
ParseDecisionLog(entries) ==
    IF entries = <<>> THEN <<>>
    ELSE IF ModelOK("DecisionLogEntry", Head(entries))
         THEN <<Build("DecisionLogEntry", Head(entries))>> \o ParseDecisionLog(Tail(entries))
         ELSE ParseDecisionLog(Tail(entries))

GetOr(o, key, default) == IF key \in DOMAIN o THEN o[key] ELSE default

\* a validator that returns an empty result where it should raise
ValidateParsedSwallow(p) ==
    LET resume_data == GetOr(p.o, "structured_resume", JObj(<<>>))
        decision_log_data == GetOr(p.o, "decision_log", JArr(<<>>))
    IN  IF ~ModelOK("CanonicalResume", resume_data) \/ IsNull(decision_log_data)
        THEN [ok |-> TRUE, resume |-> JNull, decision_log |-> <<>>]
        ELSE [ok |-> TRUE,
              resume |-> Build("CanonicalResume", resume_data),
              decision_log |-> ParseDecisionLog(IterItems(decision_log_data))]

\* lines 249-261 on the reconciled object: ok is FALSE where an exception
\* reaches the handler of line 263
ValidateParsed(parsed) ==
    LET resume_data == GetOr(parsed.o, "structured_resume", JObj(<<>>))
        decision_log_data == GetOr(parsed.o, "decision_log", JArr(<<>>))
    IN  IF ~ModelOK("CanonicalResume", resume_data) \/ IsNull(decision_log_data)
        THEN [ok |-> FALSE, resume |-> JNull, decision_log |-> <<>>]
        ELSE [ok |-> TRUE,
              resume |-> Build("CanonicalResume", resume_data),
              decision_log |-> ParseDecisionLog(IterItems(decision_log_data))]

--------------------------------------------------------------------------
(* The texts the generative model may return (llm_service.py line 211).   *)

\* the longest run of prose pieces put before and after a payload
MaxProse == 1

TStr(a) == IF a = "" THEN <<Q, Q>> ELSE <<Q, a, Q>>

TKV(k, vt) == <<Q, k, Q, ":">> \o vt

RECURSIVE Join(_)
Join(parts) ==
    IF parts = <<>> THEN <<>>
    ELSE IF Len(parts) = 1 THEN parts[1]
    ELSE parts[1] \o <<",">> \o Join(Tail(parts))

\* the members that are there (an absent member is the empty text)
Members(parts) == SelectSeq(parts, LAMBDA m : m # <<>>)

TObj(members) == <<"{">> \o Join(Members(members)) \o <<"}">>

TArr(elems) == <<"[">> \o Join(elems) \o <<"]">>

TNull == <<"null">>

ContactTexts ==
    { <<>>,
      TKV("contact", TObj(<<>>)),
      TKV("contact", TObj(<<TKV("full_name", TStr("Ann Lee")),
                            TKV("email", TStr("ann@example.org"))>>)),
      TKV("contact", TObj(<<TKV("email", TStr("not an email"))>>)),
      TKV("contact", TNull) }

ProjectText(name, src) ==
    TObj(<<TKV("name", TStr(name)), TKV("description", TStr("cli tool")),
           TKV("technologies", TArr(<<TStr("Python")>>)),
           IF src = "" THEN <<>> ELSE TKV("source", TStr(src))>>)

AliasProjectText(alias) ==
    TObj(<<TKV("name", TStr("forge")), TKV("description", TStr("cli tool")),
           TKV("technologies", TArr(<<>>)), TKV("source", TStr("both")),
           TKV(alias, TArr(<<TStr("fast")>>))>>)

ProjectsTexts ==
    { <<>>,
      TKV("projects", TArr(<<ProjectText("forge", "resume")>>)),
      TKV("projects", TArr(<<ProjectText("forge", "Resume")>>)),
      TKV("projects", TArr(<<ProjectText("forge", "GITHUB")>>)),
      TKV("projects", TArr(<<ProjectText("forge", "github"), ProjectText("site", "resume")>>)),
      TKV("projects", TArr(<<ProjectText("forge", "linkedin")>>)),
      TKV("projects", TArr(<<ProjectText("forge", "")>>)),
      TKV("projects", TArr(<<AliasProjectText("achievements")>>)),
      TKV("projects", TArr(<<AliasProjectText("bullets"), TNull>>)),
      TKV("projects", TNull) }

SkillsTexts ==
    { TKV("technical_skills", TObj(<<TKV("languages", TArr(<<TStr("Python"), TStr("Go")>>))>>)),
      TKV("technical_skills", TObj(<<TKV("languages", TArr(<<TStr("Python"), TStr("python")>>))>>)),
      TKV("technical_skills", TObj(<<TKV("tools_platforms", TArr(<<TStr("docker"), TStr("Docker"), TStr("docker")>>)),
                                     TKV("other", TArr(<<>>))>>)),
      TKV("technical_skills", TObj(<<TKV("databases", TArr(<<TNull>>))>>)),
      TKV("technical_skills", TNull) }

ExperienceTexts ==
    { TKV("experience", TArr(<<TObj(<<TKV("title", TStr("Engineer")), TKV("company", TStr("Acme")),
                                     TKV("description", TStr("Did X"))>>)>>)),
      TKV("experience", TArr(<<TObj(<<TKV("role", TStr("Engineer")), TKV("title", TStr("Intern")),
                                     TKV("organization", TStr("Acme")),
                                     TKV("description", TArr(<<TStr("Did X")>>))>>)>>)),
      TKV("experience", TArr(<<TObj(<<TKV("title", TStr("Engineer")),
                                     TKV("description", TArr(<<>>))>>)>>)),
      TKV("experience", TObj(<<TKV("title", TStr("Engineer"))>>)) }

EducationTexts ==
    { TKV("education", TArr(<<TObj(<<TKV("degree", TStr("BSc")), TKV("school", TStr("MIT"))>>)>>)),
      TKV("education", TArr(<<TObj(<<TKV("degree", TStr("BSc")), TKV("school", TStr("MIT")),
                                    TKV("university", TStr("state college"))>>)>>)),
      TKV("education", TArr(<<TObj(<<TKV("degree", TStr("BSc")), TKV("university", TStr("MIT")),
                                    TKV("institution", TStr("state college"))>>)>>)),
      TKV("education", TArr(<<TObj(<<TKV("degree", TStr("BSc"))>>), TStr("MIT")>>)) }

EntryText(section, action, source, confidence) ==
    TObj(<<TKV("section", TStr(section)), TKV("action", TStr(action)),
           TKV("items", TArr(<<TStr("forge")>>)), TKV("reason", TStr("recent work")),
           TKV("source", TStr(source)), TKV("confidence", TStr(confidence))>>)

\* the log of the spec's example: its second entry has confidence "very high"
MixedLogText ==
    TKV("decision_log", TArr(<<EntryText("projects", "included", "resume", "high"),
                               EntryText("skills", "merged", "both", "very high"),
                               EntryText("education", "excluded", "github", "low")>>))

DecisionLogTexts ==
    { <<>>,
      TKV("decision_log", TArr(<<>>)),
      TKV("decision_log", TArr(<<EntryText("projects", "included", "github", "high")>>)),
      MixedLogText,
      TKV("decision_log", TArr(<<EntryText("projects", "Included", "Resume", "HIGH")>>)),
      TKV("decision_log", TArr(<<EntryText("projects", "normalized", "linkedin", "medium")>>)),
      TKV("decision_log", TArr(<<EntryText("projects", "invented", "resume", "high"), TNull,
                                 EntryText("skills", "normalized", "both", "medium")>>)),
      TKV("decision_log", TObj(<<TKV("section", TStr("projects"))>>)),
      TKV("decision_log", TStr("nothing to report")),
      TKV("decision_log", TNull) }

ResumeMember(parts) == TKV("structured_resume", TObj(parts))

OkContact == TKV("contact", TObj(<<>>))

\* payloads that are well-formed JSON, one aspect varied at a time
RichBodies ==
    {TObj(<<ResumeMember(<<c>>), d>>) : c \in ContactTexts, d \in DecisionLogTexts}
    \cup {TObj(<<ResumeMember(<<OkContact, p>>), d>>) :
             p \in ProjectsTexts,
             d \in {<<>>, MixedLogText, TKV("decision_log", TNull)}}
    \cup {TObj(<<ResumeMember(<<OkContact, x>>)>>) :
             x \in SkillsTexts \cup ExperienceTexts \cup EducationTexts}
    \cup {TObj(<<ResumeMember(<<TKV("projects", TArr(<<ProjectText("forge", "resume")>>))>>),
                  MixedLogText>>)}
    \cup {TObj(<<TKV("structured_resume", v)>>) : v \in {TNull, TArr(<<>>), TArr(<<TNull>>), TStr("see above"), TStr("")}}
    \cup {TArr(<<>>), TStr("sorry"), TNull, TObj(<<>>)}

RichTexts ==
    RichBodies \cup {FenceOpen \o <<"\n">> \o b \o <<"\n">> \o FenceClose : b \in RichBodies}

\* short payloads for the recoverer: compact, spaced, without the resume key,
\* with the outer brace lost, cut off before its closing braces, and with
\* the decision log first
NoisyBodies ==
    { <<"{", Q, "structured_resume", Q, ":", "{", Q, "contact", Q, ":", "{", "}", "}", "}">>,
      <<"{", " ", Q, "structured_resume", Q, ":", " ", "{", Q, "contact", Q, ":", "{", "}", "}", "}">>,
      <<"{", Q, "resume", Q, ":", "{", Q, "structured_resume", Q, ":", "null", "}", "}">>,
      <<Q, "structured_resume", Q, ":", "{", Q, "contact", Q, ":", "{", "}", "}", "}">>,
      <<"{", Q, "structured_resume", Q, ":", "{", Q, "contact", Q, ":", "{">>,
      <<"{", Q, "decision_log", Q, ":", "[", "]", ",", Q, "structured_resume", Q, ":", "null", "}">> }

PrePieces ==
    { <<"Here", " ", "is", " ", "the", " ", "result", " ">>, <<"{">>, <<"[">>, <<" ">>,
      FenceOpen \o <<"\n">>, <<"Sure!", " ">> \o FenceOpen \o <<"\n">>,
      <<"{", Q, "structured_resume", Q, ":", "null", "}", " ">> }

PostPieces ==
    { <<" ", "and", " ", "some", " ", "trailing", " ", "notes">>, <<"}">>, <<"]">>, <<"\n">>,
      <<"\n">> \o FenceClose, <<" ", "{", "done", "}">> }

RECURSIVE ProseUpTo(_, _)
ProseUpTo(pieces, n) ==
    IF n = 0 THEN {<<>>}
    ELSE LET shorter == ProseUpTo(pieces, n - 1)
         IN  shorter \cup {p \o q : p \in shorter, q \in pieces}

NoisyTexts ==
    {pre \o body \o post :
        pre \in ProseUpTo(PrePieces, MaxProse),
        body \in NoisyBodies,
        post \in ProseUpTo(PostPieces, MaxProse)}

\* every payload with at most one piece before it and one after it
WrappedTexts ==
    {pre \o body \o post :
        pre \in {<<>>} \cup PrePieces,
        body \in NoisyBodies,
        post \in {<<>>} \cup PostPieces}

ModelTexts == RichTexts \cup WrappedTexts

\* the provider's message when the call fails
ProviderErrors == {"request timed out", "invalid api key", "quota exceeded"}

NoneValue == "<None>"

NoneText == <<NoneValue>>

ResumeTextValues == {NoneValue, "", "Ann Lee, engineer at Acme"}

GithubDataValues == {NoneValue, "{}", "{profile, repositories}"}

\* Python truth value of a request input
TruthyInput(x) == x \notin {NoneValue, "", "{}"}

--------------------------------------------------------------------------
(* LLMService.structure_resume as a state machine: one request, and the   *)
(* position of its handler.                                                *)

VARIABLES
    pc,             \* idle, prompted, called, recovered, reconciled, done, failed
    resume_text,    \* the request's resume_text
    github_data,    \* the request's github_data
    llm_calls,      \* calls of client.chat.completions.create made so far
    content,        \* the model's raw text
    clean_content,  \* the text handed to _parse_response
    parsed,         \* the recovered object, reconciled in place
    marker,         \* 0: parsed directly; 1..3: the marker whose candidate parsed
    result,         \* the returned (CanonicalResume, decision log)
    error,          \* the exception raised: none, precondition, llm, content, recovery, schema
    error_message,  \* the text the exception carries
    provider_error, \* what the provider raised, if it did
    stages,         \* the pipeline stages run so far, in order
    parser,         \* the parser object at work: PDFParser, MarkdownParser, LaTeXParser
    filename,       \* the filename given to the parser
    file_content,   \* the bytes given to the parser
    validation,     \* what validate_file returned
    validate_ops,   \* what validate_file did with the bytes, in order
    parse_result,   \* what parse returned or raised
    all_repos,      \* the repositories fetched for the user, in fetch order
    top_repos,      \* what _fetch_repositories kept, in the order returned
    prompt_args,    \* the arguments of _build_user_prompt
    user_prompt,    \* the lines of the prompt it built
    sanitize_arg,   \* the text given to sanitize_text
    sanitize_out,   \* what sanitize_text returned, call after call
    uploads,        \* the resume_uploads table, as committed
    structured_resumes, \* the structured_resumes table, as committed
    requests        \* the requests in flight: position, session objects, outcome

vars == <<pc, resume_text, github_data, llm_calls, content, clean_content, parsed,
          marker, result, error, error_message, provider_error, stages,
          parser, filename, file_content, validation, validate_ops, parse_result,
          all_repos, top_repos, prompt_args, user_prompt, sanitize_arg, sanitize_out,
          uploads, structured_resumes, requests>>

parserVars == <<parser, filename, file_content, validation, validate_ops, parse_result>>

pipelineVars == <<pc, resume_text, github_data, llm_calls, content, clean_content, parsed,
                  marker, result, error, error_message, provider_error, stages>>

NoName == [stem |-> "", suffix |-> ""]

\* what an extractor of the PDF libraries does with a file: it throws, or it
\* gives the text of each page
Throws == [throws |-> TRUE, pages |-> <<>>]

\* what the PDF libraries make of bytes that are no PDF document
NoDoc == [open |-> "corrupt", plumber |-> Throws, pypdf |-> Throws]

NoFile == [head |-> <<>>, pad |-> 0, doc |-> NoDoc]

NotValidated == [done |-> FALSE, ok |-> FALSE, reason |-> ""]

NotParsed == [done |-> FALSE, raised |-> FALSE, text |-> <<>>, warnings |-> <<>>, via |-> "none"]

rankerVars == <<all_repos, top_repos>>

promptVars == <<prompt_args, user_prompt>>

sanitizerVars == <<sanitize_arg, sanitize_out>>

storeVars == <<uploads, structured_resumes, requests>>

NotRanked == [done |-> FALSE, repos |-> <<>>]

NoArgs == [given |-> FALSE]

NoPrompt == [built |-> FALSE, rejected |-> FALSE, parts |-> <<>>]

\* no repository is ranked, no prompt built, no text sanitized
ServicesIdle ==
    /\ all_repos = <<>>
    /\ top_repos = NotRanked
    /\ prompt_args = NoArgs
    /\ user_prompt = NoPrompt
    /\ sanitize_arg = NoneValue
    /\ sanitize_out = <<>>

\* the tables are empty and no request is in flight
StoreIdle ==
    /\ uploads = <<>>
    /\ structured_resumes = <<>>
    /\ requests = <<>>

\* no parser is at work
ParserIdle ==
    /\ parser = "none"
    /\ filename = NoName
    /\ file_content = NoFile
    /\ validation = NotValidated
    /\ validate_ops = <<>>
    /\ parse_result = NotParsed

NoResult == [resume |-> JNull, decision_log |-> <<>>]

\* no structure request is at work in the service
PipelineIdle ==
    /\ pc = "idle"
    /\ resume_text = NoneValue
    /\ github_data = NoneValue
    /\ llm_calls = 0
    /\ content = NoneText
    /\ clean_content = NoneText
    /\ parsed = JNull
    /\ marker = 0
    /\ result = NoResult
    /\ error = "none"
    /\ error_message = <<>>
    /\ provider_error = NoneValue
    /\ stages = <<>>

Init ==
    /\ pc = "idle"
    /\ resume_text = NoneValue
    /\ github_data = NoneValue
    /\ llm_calls = 0
    /\ content = NoneText
    /\ clean_content = NoneText
    /\ parsed = JNull
    /\ marker = 0
    /\ result = NoResult
    /\ error = "none"
    /\ error_message = <<>>
    /\ provider_error = NoneValue
    /\ stages = <<>>
    /\ ParserIdle
    /\ ServicesIdle
    /\ StoreIdle

\* a precondition that tests for None only
PreconditionFailsNoneOnly(rt, gd) == rt = NoneValue /\ gd = NoneValue

\* line 184
PreconditionFails(rt, gd) == ~TruthyInput(rt) /\ ~TruthyInput(gd)

\* lines 184-196: the precondition, then the prompts
StructureResume(rt, gd) ==
    /\ pc = "idle"
    /\ resume_text' = rt
    /\ github_data' = gd
    /\ IF PreconditionFails(rt, gd)
       THEN /\ pc' = "failed"
            /\ error' = "precondition"
            /\ error_message' = <<"At least one data source (resume or GitHub) must be provided">>
       ELSE /\ pc' = "prompted"
            /\ UNCHANGED <<error, error_message>>
    /\ UNCHANGED <<parserVars, rankerVars, promptVars, sanitizerVars, storeVars>>
    /\ UNCHANGED <<llm_calls, content, clean_content, parsed, marker, result,
                   provider_error, stages>>

\* lines 198-212: the call returns text
ModelReturns(text) ==
    /\ pc = "prompted"
    /\ llm_calls' = llm_calls + 1
    /\ content' = text
    /\ pc' = "called"
    /\ stages' = Append(stages, "call")
    /\ UNCHANGED <<parserVars, rankerVars, promptVars, sanitizerVars, storeVars>>
    /\ UNCHANGED <<resume_text, github_data, clean_content, parsed, marker, result,
                   error, error_message, provider_error>>

\* a handler that calls again after a failed call
ModelFailsRetry(msg) ==
    /\ pc = "prompted"
    /\ llm_calls' = llm_calls + 1
    /\ provider_error' = msg
    /\ UNCHANGED <<parserVars, rankerVars, promptVars, sanitizerVars, storeVars>>
    /\ UNCHANGED <<pc, resume_text, github_data, content, clean_content, parsed, marker,
                   result, error, error_message, stages>>

\* lines 214-216: the call raises; the error is re-raised with its message
ModelFails(msg) ==
    /\ pc = "prompted"
    /\ llm_calls' = llm_calls + 1
    /\ provider_error' = msg
    /\ pc' = "failed"
    /\ error' = "llm"
    /\ error_message' = <<"LLM API error: ", msg>>
    /\ stages' = Append(stages, "call")
    /\ UNCHANGED <<parserVars, rankerVars, promptVars, sanitizerVars, storeVars>>
    /\ UNCHANGED <<resume_text, github_data, content, clean_content, parsed, marker,
                   result>>

\* line 211 gives None (a message without content): line 220 raises AttributeError
ModelReturnsNone ==
    /\ pc = "prompted"
    /\ llm_calls' = llm_calls + 1
    /\ pc' = "failed"
    /\ error' = "content"
    /\ error_message' = <<"'NoneType' object has no attribute 'strip'">>
    /\ stages' = Append(stages, "call")
    /\ UNCHANGED <<parserVars, rankerVars, promptVars, sanitizerVars, storeVars>>
    /\ UNCHANGED <<resume_text, github_data, content, clean_content, parsed, marker,
                   result, provider_error>>

\* lines 218-242: the fence is cut off and the object recovered
Recover ==
    /\ pc = "called"
    /\ clean_content' = CleanContent(content)
    /\ stages' = Append(stages, "recover")
    /\ LET r == RecoverObject(CleanContent(content))
       IN  IF r.ok
           THEN /\ parsed' = r.v
                /\ marker' = r.marker
                /\ pc' = "recovered"
                /\ UNCHANGED <<error, error_message>>
           ELSE /\ pc' = "failed"
                /\ error' = "recovery"
                /\ error_message' = <<"Could not extract valid JSON from LLM response">>
                /\ UNCHANGED <<parsed, marker>>
    /\ UNCHANGED <<parserVars, rankerVars, promptVars, sanitizerVars, storeVars>>
    /\ UNCHANGED <<resume_text, github_data, llm_calls, content, result, provider_error>>

SchemaError ==
    /\ pc' = "failed"
    /\ error' = "schema"
    /\ error_message' = <<"LLM response does not match expected schema: ">>

\* line 246
Reconcile ==
    /\ pc = "recovered"
    /\ stages' = Append(stages, "reconcile")
    /\ LET n == NormalizeSchema(parsed)
       IN  IF n.ok
           THEN /\ parsed' = n.v
                /\ pc' = "reconciled"
                /\ UNCHANGED <<error, error_message>>
           ELSE /\ SchemaError
                /\ UNCHANGED parsed
    /\ UNCHANGED <<parserVars, rankerVars, promptVars, sanitizerVars, storeVars>>
    /\ UNCHANGED <<resume_text, github_data, llm_calls, content, clean_content, marker,
                   result, provider_error>>

\* a validation that does not wait for the reconciliation
ValidateUnreconciled ==
    /\ pc \in {"recovered", "reconciled"}
    /\ stages' = Append(stages, "validate")
    /\ LET v == IF IsDict(parsed) THEN ValidateParsed(parsed)
                ELSE [ok |-> FALSE, resume |-> JNull, decision_log |-> <<>>]
       IN  IF v.ok
           THEN /\ result' = [resume |-> v.resume, decision_log |-> v.decision_log]
                /\ pc' = "done"
                /\ UNCHANGED <<error, error_message>>
           ELSE /\ SchemaError
                /\ UNCHANGED result
    /\ UNCHANGED <<parserVars, rankerVars, promptVars, sanitizerVars, storeVars>>
    /\ UNCHANGED <<resume_text, github_data, llm_calls, content, clean_content, parsed,
                   marker, provider_error>>

\* lines 248-265
Validate ==
    /\ pc = "reconciled"
    /\ stages' = Append(stages, "validate")
    /\ LET v == ValidateParsed(parsed)
       IN  IF v.ok
           THEN /\ result' = [resume |-> v.resume, decision_log |-> v.decision_log]
                /\ pc' = "done"
                /\ UNCHANGED <<error, error_message>>
           ELSE /\ SchemaError
                /\ UNCHANGED result
    /\ UNCHANGED <<parserVars, rankerVars, promptVars, sanitizerVars, storeVars>>
    /\ UNCHANGED <<resume_text, github_data, llm_calls, content, clean_content, parsed,
                   marker, provider_error>>

Next ==
    \/ \E rt \in ResumeTextValues, gd \in GithubDataValues : StructureResume(rt, gd)
    \/ \E text \in ModelTexts : ModelReturns(text)
    \/ \E msg \in ProviderErrors : ModelFails(msg)
    \/ ModelReturnsNone
    \/ Recover
    \/ Reconcile
    \/ Validate

Spec == Init /\ [][Next]_vars

\* the recoverer alone, from the state in which a call has returned text
InitRecover ==
    /\ pc = "called"
    /\ resume_text = "Ann Lee, engineer at Acme"
    /\ github_data = NoneValue
    /\ llm_calls = 1
    /\ content \in NoisyTexts
    /\ clean_content = NoneText
    /\ parsed = JNull
    /\ marker = 0
    /\ result = NoResult
    /\ error = "none"
    /\ error_message = <<>>
    /\ provider_error = NoneValue
    /\ stages = <<"call">>
    /\ ParserIdle
    /\ ServicesIdle
    /\ StoreIdle

NextRecover ==
    \/ Recover
    \/ Reconcile
    \/ Validate

SpecRecover == InitRecover /\ [][NextRecover]_vars

--------------------------------------------------------------------------
(* Properties *)

Called == pc # "idle"

LastStage == IF stages = <<>> THEN "none" ELSE stages[Len(stages)]

\* C1: a structure request with neither resume text nor GitHub data (each
\* absent or empty) fails with the precondition error, and the generative
\* model has not been invoked when it fails.
C1_PreconditionBeforeModelCall ==
    (Called /\ ~TruthyInput(resume_text) /\ ~TruthyInput(github_data))
        => (pc = "failed" /\ error = "precondition" /\ llm_calls = 0 /\ stages = <<>>)

C1_Witness ==
    pc = "failed" /\ error = "precondition" /\ resume_text = "" /\ github_data = "{}"

\* C2: a request makes at most one model call; a failed call is not retried
\* and reaches the caller as an error that carries the provider's message.
C2_OneCallNoRetry ==
    /\ llm_calls <= 1
    /\ provider_error # NoneValue =>
          /\ pc = "failed"
          /\ error = "llm"
          /\ llm_calls = 1
          /\ error_message = <<"LLM API error: ", provider_error>>

C2_Witness ==
    pc = "failed" /\ error = "llm" /\ provider_error = "quota exceeded" /\ llm_calls = 1

Finished == pc \in {"done", "failed"}

ResumeData(p) == GetOr(p.o, "structured_resume", JObj(<<>>))

ResumeValidates(p) == IsDict(p) /\ ModelOK("CanonicalResume", ResumeData(p))

\* the decision_log entries of p that validate on their own, in their order
ValidLogEntries(p) ==
    LET log == GetOr(p.o, "decision_log", JArr(<<>>))
        entries == IF IsList(log) THEN log.a ELSE <<>>
        valid == SelectSeq(entries, LAMBDA e : ModelOK("DecisionLogEntry", e))
    IN  [i \in 1..Len(valid) |-> Build("DecisionLogEntry", valid[i])]

\* C3: whenever the recovered object's structured_resume validates, the
\* request succeeds whatever decision_log holds, and the returned log is
\* exactly the entries that validate on their own, in their original order.
C3_LogNeverFailsRequest ==
    (LastStage = "validate" /\ ResumeValidates(parsed))
        => (pc = "done" /\ result.decision_log = ValidLogEntries(parsed))

\* C4: if the reconciled structured_resume does not validate against the
\* canonical shape (a missing structured_resume or contact included), the
\* request fails with the schema error and returns no resume and no log.
C4_InvalidResumeFailsRequest ==
    (Finished /\ LastStage \in {"reconcile", "validate"} /\ ~ResumeValidates(parsed))
        => (pc = "failed" /\ error = "schema" /\ result = NoResult)

C4_Witness ==
    /\ pc = "failed" /\ error = "schema" /\ LastStage = "validate"
    /\ IsDict(ResumeData(parsed))
    /\ DOMAIN ResumeData(parsed).o # {}
    /\ "contact" \notin DOMAIN ResumeData(parsed).o

ResultProjects == result.resume.o["projects"].a

\* C5: in every returned pair each enumerated field is a lower-case member
\* of its vocabulary: project source and decision-log source in {resume,
\* github, both}, action in {included, excluded, merged, normalized},
\* confidence in {high, medium, low}.
C5_ClosedVocabularies ==
    pc = "done" =>
        /\ \A i \in 1..Len(ResultProjects) :
               ResultProjects[i].o["source"].s \in AllowedSources
        /\ \A i \in 1..Len(result.decision_log) :
               LET e == result.decision_log[i].o
               IN  /\ e["source"].s \in AllowedSources
                   /\ e["action"].s \in AllowedActions
                   /\ e["confidence"].s \in AllowedConfidences

NoCaseDuplicates(list) ==
    \A i, j \in 1..Len(list) : i # j => Lower(list[i].s) # Lower(list[j].s)

\* C6: in every returned resume none of the five technical-skills lists
\* holds two entries that are equal ignoring case.
C6_SkillsDeduplicated ==
    pc = "done" =>
        \A k \in DOMAIN TechnicalSkills :
            NoCaseDuplicates(result.resume.o["technical_skills"].o[k].a)

ResumeOnly == TruthyInput(resume_text) /\ ~TruthyInput(github_data)

\* C7: given resume text only (no GitHub data), every project of the
\* returned resume has source "resume", whatever text the model returned.
C7_ResumeOnlyProjectsFromResume ==
    (pc = "done" /\ ResumeOnly) =>
        \A i \in 1..Len(ResultProjects) : ResultProjects[i].o["source"].s = "resume"

AfterRecover == LastStage = "recover"

\* a text with a leading json fence and a trailing fence cut off, trimmed
StripFences(text) ==
    LET a == Strip(text)
        b == IF StartsWith(a, FenceOpen) THEN SubSeq(a, Len(FenceOpen) + 1, Len(a)) ELSE a
        c == IF EndsWith(b, FenceClose) THEN SubSeq(b, 1, Len(b) - Len(FenceClose)) ELSE b
    IN  Strip(c)

Fenced(body) == FenceOpen \o <<"\n">> \o body \o <<"\n">> \o FenceClose

\* C8: if the model text with its leading json fence and trailing fence
\* stripped is valid JSON, the recovered object is the direct parse of the
\* stripped text and no anchor is consulted; a fenced payload recovers the
\* object its inner JSON parses to.
C8_DirectParseOfStrippedText ==
    AfterRecover =>
        /\ clean_content = StripFences(content)
        /\ JsonLoads(StripFences(content)).ok =>
              /\ pc = "recovered"
              /\ marker = 0
              /\ parsed = JsonLoads(StripFences(content)).v
        /\ \A b \in NoisyBodies :
              (content = Fenced(b) /\ JsonLoads(b).ok) =>
                  (pc = "recovered" /\ marker = 0 /\ parsed = JsonLoads(b).v)

C8_Witness ==
    /\ AfterRecover /\ pc = "recovered" /\ marker = 0
    /\ \E b \in NoisyBodies : content = Fenced(b) /\ IsDict(parsed)

\* the recovery anchors in their priority order
Anchors ==
    << <<"{", Q, "structured_resume", Q, ":">>,
       <<Q, "structured_resume", Q, ":">>,
       <<"{">> >>

\* an anchor's candidate: the text from the anchor's first occurrence through
\* the last closing brace, an opening brace put before it when it starts
\* with none; the empty text when there is no anchor or no closing brace
AnchorCandidate(text, anchor) ==
    LET occ == Occurrences(text, anchor)
        braces == {i \in 1..Len(text) : text[i] = "}"}
    IN  IF occ = {} \/ braces = {} THEN <<>>
        ELSE LET first == CHOOSE i \in occ : \A j \in occ : i <= j
                 last == CHOOSE i \in braces : \A j \in braces : j <= i
                 cand == SubSeq(text, first + 1, last)
             IN  IF cand # <<>> /\ cand[1] = "{" THEN cand ELSE <<"{">> \o cand

ParsingAnchors(text) ==
    {m \in 1..Len(Anchors) : JsonLoads(AnchorCandidate(text, Anchors[m])).ok}

\* C9: when the direct parse fails, the recovered object is the parse of the
\* candidate of the first anchor, in priority order, whose candidate is valid
\* JSON; recovery fails with the recovery error exactly when no anchor's
\* candidate parses.
C9_FirstParsingAnchor ==
    (AfterRecover /\ ~JsonLoads(clean_content).ok) =>
        LET good == ParsingAnchors(clean_content)
        IN  IF good = {} THEN pc = "failed" /\ error = "recovery"
            ELSE LET m == CHOOSE g \in good : \A h \in good : g <= h
                 IN  /\ pc = "recovered"
                     /\ marker = m
                     /\ parsed = JsonLoads(AnchorCandidate(clean_content, Anchors[m])).v

C9_Witness ==
    /\ AfterRecover /\ pc = "recovered" /\ marker = 3
    /\ Occurrences(clean_content, Anchors[1]) # {}
    /\ ~JsonLoads(clean_content).ok

\* the places <<i, j>> of text that hold a valid JSON object starting with
\* the first anchor: text is prose, then that object, then prose
Payloads(text) ==
    {d \in (1..Len(text)) \X (1..Len(text)) :
        /\ d[1] <= d[2]
        /\ text[d[2]] = "}"
        /\ StartsWith(SubSeq(text, d[1], d[2]), Anchors[1])
        /\ JsonLoads(SubSeq(text, d[1], d[2])).ok}

\* C10 as claimed: for a text prose + J + prose, J a valid JSON object that
\* starts with the first anchor and the prose arbitrary, recovery returns J.
C10_RecoversEmbeddedObject ==
    AfterRecover =>
        \A d \in Payloads(content) :
            /\ pc = "recovered"
            /\ parsed = JsonLoads(SubSeq(content, d[1], d[2])).v

ProseAllowsRecovery(pre, post) ==
    /\ Occurrences(pre, Anchors[1]) = {}
    /\ \A k \in 1..Len(post) : post[k] \notin {"}", "]"}

\* C10 amended: for a text prose + J + prose, J a valid JSON object that
\* starts with the first anchor, recovery returns J when the prose before J
\* does not hold the first anchor and the prose after J holds neither a
\* closing brace nor a closing bracket.
C10_RecoversEmbeddedObjectCleanProse ==
    AfterRecover =>
        \A d \in Payloads(content) :
            ProseAllowsRecovery(SubSeq(content, 1, d[1] - 1),
                                SubSeq(content, d[2] + 1, Len(content)))
                => /\ pc = "recovered"
                   /\ parsed = JsonLoads(SubSeq(content, d[1], d[2])).v

C10_Witness ==
    /\ AfterRecover /\ pc = "recovered" /\ marker = 1
    /\ \E d \in Payloads(content) :
          /\ ProseAllowsRecovery(SubSeq(content, 1, d[1] - 1),
                                 SubSeq(content, d[2] + 1, Len(content)))
          /\ "Here" \in {content[k] : k \in 1..(d[1] - 1)}
          /\ "notes" \in {content[k] : k \in (d[2] + 1)..Len(content)}

\* the closing brackets a cut-off text may lack
ClosingTails ==
    { <<"}">>, <<"}", "}">>, <<"}", "}", "}">>, <<"]">>, <<"]", "}">>, <<"]", "}", "}">> }

\* text is a valid JSON object cut off before its closing brackets
Truncated(text) ==
    /\ ~JsonLoads(text).ok
    /\ \E tail \in ClosingTails :
           JsonLoads(text \o tail).ok /\ IsDict(JsonLoads(text \o tail).v)

\* C11: when the model text is a valid JSON object cut off before its
\* closing brackets, recovery returns a JSON object instead of failing.
C11_TruncatedObjectRecovered ==
    (AfterRecover /\ Truncated(clean_content)) => (pc = "recovered" /\ IsDict(parsed))

--------------------------------------------------------------------------
(* The reconciler on its own: the texts below parse directly, and each    *)
(* holds one section whose entries carry every combination of a canonical *)
(* key and its aliases.                                                    *)

\* a member that may be absent
Opt(k, vt) == {<<>>, TKV(k, vt)}

ExperienceEntryTexts ==
    {TObj(<<r, t, o, c, d>>) :
        r \in Opt("role", TStr("Engineer")),
        t \in Opt("title", TStr("Intern")),
        o \in Opt("organization", TStr("Acme")),
        c \in Opt("company", TStr("Initech")),
        d \in Opt("description", TStr("Did X"))
               \cup {TKV("description", TArr(<<TStr("Did X")>>)), TKV("description", TNull)}}
    \cup {TObj(<<TKV("title", TStr("Engineer")), TKV("company", TStr("Acme")),
                 TKV("description", TStr("Did X"))>>)}

EducationEntryTexts ==
    {TObj(<<TKV("degree", TStr("BSc")), i, s, u>>) :
        i \in Opt("institution", TStr("MIT")),
        s \in Opt("school", TStr("state college")),
        u \in Opt("university", TStr("Tech U"))}

ProjectEntryTexts ==
    {TObj(<<TKV("name", TStr("forge")), h, a, b>>) :
        h \in Opt("highlights", TArr(<<TStr("fast")>>)),
        a \in Opt("achievements", TArr(<<TStr("won")>>)),
        b \in Opt("bullets", TArr(<<TStr("small")>>))}

\* what stands beside structured_resume at the top level
TopLevelRest ==
    <<TKV("decision_log", TArr(<<EntryText("projects", "included", "resume", "high")>>)),
      TKV("notes", TObj(<<TKV("title", TStr("draft"))>>))>>

SectionBody(section, entries) ==
    TObj(<<ResumeMember(<<OkContact, TKV(section, TArr(entries))>>)>> \o TopLevelRest)

ReconcilerTexts ==
    {SectionBody("experience", <<e>>) : e \in ExperienceEntryTexts}
    \cup {SectionBody("education", <<e>>) : e \in EducationEntryTexts}
    \cup {SectionBody("projects", <<e>>) : e \in ProjectEntryTexts}
    \cup {SectionBody("experience", <<TNull, e, TStr("see above")>>) :
             e \in {TObj(<<TKV("title", TStr("Intern"))>>)}}
    \cup {TObj(<<ResumeMember(<<OkContact, x>>)>> \o TopLevelRest) :
             x \in {TKV("experience", TObj(<<TKV("title", TStr("Intern"))>>)),
                    TKV("education", TNull),
                    TKV("projects", TStr("forge"))}}
    \cup {TObj(<<m>> \o TopLevelRest) :
             m \in {<<>>, TKV("structured_resume", TObj(<<>>)), TKV("structured_resume", TNull),
                    TKV("structured_resume", TArr(<<>>)), TKV("structured_resume", TStr(""))}}

InitReconcile ==
    /\ pc = "called"
    /\ resume_text = "Ann Lee, engineer at Acme"
    /\ github_data = NoneValue
    /\ llm_calls = 1
    /\ content \in ReconcilerTexts
    /\ clean_content = NoneText
    /\ parsed = JNull
    /\ marker = 0
    /\ result = NoResult
    /\ error = "none"
    /\ error_message = <<>>
    /\ provider_error = NoneValue
    /\ stages = <<"call">>
    /\ ParserIdle
    /\ ServicesIdle
    /\ StoreIdle

SpecReconcile == InitReconcile /\ [][NextRecover]_vars

\* the step in which _normalize_schema runs and returns
Reconciled == pc = "recovered" /\ pc' = "reconciled"

AfterReconcile == LastStage = "reconcile" /\ pc = "reconciled"

\* the object the recoverer handed to the reconciler
Recovered == RecoverObject(clean_content).v

ReconciledSections == {"experience", "education", "projects"}

CanonicalKeys == {"role", "organization", "institution", "highlights"}

\* the entries of a section of p's structured_resume, when it is a list
EntriesOf(p, section) ==
    IF /\ IsDict(p)
       /\ "structured_resume" \in DOMAIN p.o
       /\ IsDict(p.o["structured_resume"])
       /\ section \in DOMAIN p.o["structured_resume"].o
       /\ IsList(p.o["structured_resume"].o[section])
    THEN p.o["structured_resume"].o[section].a
    ELSE <<>>

\* entry a comes from entry b: canonical keys of b kept, and every value of a
\* a value of b (a string description may come back as the list holding it)
EntryKept(b, a) ==
    IF ~IsDict(b) THEN a = b
    ELSE /\ IsDict(a)
         /\ \A k \in CanonicalKeys \cap DOMAIN b.o : k \in DOMAIN a.o /\ a.o[k] = b.o[k]
         /\ \A k \in DOMAIN a.o :
                \/ \E j \in DOMAIN b.o : a.o[k] = b.o[j]
                \/ /\ k = "description"
                   /\ k \in DOMAIN b.o
                   /\ IsStr(b.o[k])
                   /\ a.o[k] = JArr(<<b.o[k]>>)

ExampleExperience ==
    JObj([title |-> JStr("Engineer"), company |-> JStr("Acme"), description |-> JStr("Did X")])

ExampleExperienceReconciled ==
    JObj([role |-> JStr("Engineer"), organization |-> JStr("Acme"),
          description |-> JArr(<<JStr("Did X")>>)])

\* experience entry b reconciled to a, as C13 states it
ExperienceReconciled(b, a) ==
    IsDict(b) =>
        /\ IsDict(a)
        /\ ("role" \notin DOMAIN b.o /\ "title" \in DOMAIN b.o) =>
               ("role" \in DOMAIN a.o /\ a.o["role"] = b.o["title"])
        /\ ("organization" \notin DOMAIN b.o /\ "company" \in DOMAIN b.o) =>
               ("organization" \in DOMAIN a.o /\ a.o["organization"] = b.o["company"])
        /\ ("description" \in DOMAIN b.o /\ IsStr(b.o["description"])) =>
               a.o["description"] = JArr(<<b.o["description"]>>)
        /\ b = ExampleExperience => a = ExampleExperienceReconciled

\* C13: for every experience entry reconciliation yields role = the title
\* when role was absent, organization = the company when organization was
\* absent, and description = the one-element list of the original string
\* when description was a string; {title: Engineer, company: Acme,
\* description: "Did X"} becomes {role: Engineer, organization: Acme,
\* description: ["Did X"]}.
C13_ExperienceAliases ==
    [][Reconciled =>
          \A i \in 1..Len(EntriesOf(parsed, "experience")) :
              /\ i <= Len(EntriesOf(parsed', "experience"))
              /\ ExperienceReconciled(EntriesOf(parsed, "experience")[i],
                                      EntriesOf(parsed', "experience")[i])]_vars

C13_Witness ==
    /\ AfterReconcile
    /\ EntriesOf(Recovered, "experience") = <<ExampleExperience>>
    /\ EntriesOf(parsed, "experience") = <<ExampleExperienceReconciled>>

\* entry b reconciled to a: without the canonical key, the first alias that
\* is present gives the canonical key, and the second is left where it is
FirstAliasWins(b, a, canonical, first, second) ==
    (IsDict(b) /\ canonical \notin DOMAIN b.o) =>
        /\ IsDict(a)
        /\ first \in DOMAIN b.o =>
               /\ canonical \in DOMAIN a.o /\ a.o[canonical] = b.o[first]
               /\ second \in DOMAIN b.o =>
                      (second \in DOMAIN a.o /\ a.o[second] = b.o[second])
        /\ (first \notin DOMAIN b.o /\ second \in DOMAIN b.o) =>
               (canonical \in DOMAIN a.o /\ a.o[canonical] = b.o[second])
        /\ (first \notin DOMAIN b.o /\ second \notin DOMAIN b.o) =>
               canonical \notin DOMAIN a.o

\* C14: an education entry without institution gets it from the first
\* present alias in the order school, university; a project entry without
\* highlights gets them from the first present alias in the order
\* achievements, bullets; a later alias that is also present is not used.
C14_FirstAliasWins ==
    [][Reconciled =>
          /\ \A i \in 1..Len(EntriesOf(parsed, "education")) :
                 FirstAliasWins(EntriesOf(parsed, "education")[i],
                                EntriesOf(parsed', "education")[i],
                                "institution", "school", "university")
          /\ \A i \in 1..Len(EntriesOf(parsed, "projects")) :
                 FirstAliasWins(EntriesOf(parsed, "projects")[i],
                                EntriesOf(parsed', "projects")[i],
                                "highlights", "achievements", "bullets")]_vars

\* an education entry that had both aliases and no institution
C14_Witness ==
    /\ AfterReconcile
    /\ \E i \in 1..Len(EntriesOf(parsed, "education")) :
          LET b == EntriesOf(Recovered, "education")[i]
              a == EntriesOf(parsed, "education")[i]
          IN  /\ IsDict(b) /\ {"school", "university"} \subseteq DOMAIN b.o
              /\ "institution" \notin DOMAIN b.o
              /\ a.o["institution"] = JStr("state college")
              /\ a.o["university"] = JStr("Tech U")

\* structured_resume is absent from p or empty
NoResume(p) ==
    "structured_resume" \notin DOMAIN p.o \/ ~Truthy(p.o["structured_resume"])

\* C15: reconciliation changes nothing outside structured_resume: the
\* decision_log and every other top-level key of the recovered object are
\* unchanged, and when structured_resume is absent or empty the whole
\* object is unchanged.
C15_OnlyResumeChanges ==
    [][Reconciled =>
          /\ IsDict(parsed) /\ IsDict(parsed')
          /\ DOMAIN parsed'.o = DOMAIN parsed.o
          /\ \A k \in DOMAIN parsed.o \ {"structured_resume"} : parsed'.o[k] = parsed.o[k]
          /\ NoResume(parsed) => parsed' = parsed]_vars

\* the resume was changed, and the log and the notes beside it are as recovered
C15_Witness ==
    /\ AfterReconcile
    /\ {"structured_resume", "decision_log", "notes"} \subseteq DOMAIN parsed.o
    /\ parsed.o["structured_resume"] # Recovered.o["structured_resume"]
    /\ parsed.o["decision_log"] = Recovered.o["decision_log"]
    /\ parsed.o["notes"] = JObj([title |-> JStr("draft")])

--------------------------------------------------------------------------
(* The format parsers (services/parsers).  The bytes of a file are a       *)
(* record: head is a sequence of symbols, each one raw byte above 0x7F     *)
(* ("xC3") or a run of ASCII bytes (a word, a command, one whitespace or   *)
(* punctuation character); pad is the number of space bytes that follow    *)
(* head; doc is what the PDF libraries make of the bytes.  Decoded text    *)
(* is such a record too, its head holding characters: an ASCII symbol      *)
(* stands for itself, any other character is named by its code point.      *)

RawBytes == {"x81", "xA9", "xBB", "xBF", "xC3", "xEF", "xFF"}

ContinuationBytes == {"x81", "xA9", "xBB", "xBF"}

\* the character of a two-byte UTF-8 sequence
Utf8Two ==
    (<<"xC3", "x81">> :> "U+00C1") @@ (<<"xC3", "xA9">> :> "U+00E9") @@
    (<<"xC3", "xBB">> :> "U+00FB") @@ (<<"xC3", "xBF">> :> "U+00FF")

\* the character of a three-byte UTF-8 sequence
Utf8Three ==
    (<<"xEF", "x81", "x81">> :> "U+F041") @@
    (<<"xEF", "x81", "xA9">> :> "U+F069") @@
    (<<"xEF", "x81", "xBB">> :> "U+F07B") @@
    (<<"xEF", "x81", "xBF">> :> "U+F07F") @@
    (<<"xEF", "xA9", "x81">> :> "U+FA41") @@
    (<<"xEF", "xA9", "xA9">> :> "U+FA69") @@
    (<<"xEF", "xA9", "xBB">> :> "U+FA7B") @@
    (<<"xEF", "xA9", "xBF">> :> "U+FA7F") @@
    (<<"xEF", "xBB", "x81">> :> "U+FEC1") @@
    (<<"xEF", "xBB", "xA9">> :> "U+FEE9") @@
    (<<"xEF", "xBB", "xBB">> :> "U+FEFB") @@
    (<<"xEF", "xBB", "xBF">> :> "U+FEFF") @@
    (<<"xEF", "xBF", "x81">> :> "U+FFC1") @@
    (<<"xEF", "xBF", "xA9">> :> "U+FFE9") @@
    (<<"xEF", "xBF", "xBB">> :> "U+FFFB") @@
    (<<"xEF", "xBF", "xBF">> :> "U+FFFF")

Latin1 ==
    ("x81" :> "U+0081") @@ ("xA9" :> "U+00A9") @@ ("xBB" :> "U+00BB") @@
    ("xBF" :> "U+00BF") @@ ("xC3" :> "U+00C3") @@ ("xEF" :> "U+00EF") @@
    ("xFF" :> "U+00FF")

\* Python's cp1252 has no character for byte 0x81
Cp1252 ==
    ("xA9" :> "U+00A9") @@ ("xBB" :> "U+00BB") @@ ("xBF" :> "U+00BF") @@
    ("xC3" :> "U+00C3") @@ ("xEF" :> "U+00EF") @@ ("xFF" :> "U+00FF")

\* the UTF-8 sequence at the start of b: n = 0 when there is none
Utf8Next(b) ==
    IF b = <<>> THEN [n |-> 0, c |-> ""]
    ELSE IF b[1] \notin RawBytes THEN [n |-> 1, c |-> b[1]]
    ELSE IF Len(b) >= 2 /\ SubSeq(b, 1, 2) \in DOMAIN Utf8Two
         THEN [n |-> 2, c |-> Utf8Two[SubSeq(b, 1, 2)]]
    ELSE IF Len(b) >= 3 /\ SubSeq(b, 1, 3) \in DOMAIN Utf8Three
         THEN [n |-> 3, c |-> Utf8Three[SubSeq(b, 1, 3)]]
    ELSE [n |-> 0, c |-> ""]

\* bytes.decode("utf-8"); with ignore set an invalid byte is dropped
RECURSIVE Utf8Decode(_, _)
Utf8Decode(b, ignore) ==
    IF b = <<>> THEN [ok |-> TRUE, text |-> <<>>]
    ELSE LET nx == Utf8Next(b)
         IN  IF nx.n = 0
             THEN IF ignore THEN Utf8Decode(Tail(b), ignore)
                  ELSE [ok |-> FALSE, text |-> <<>>]
             ELSE LET rest == Utf8Decode(SubSeq(b, nx.n + 1, Len(b)), ignore)
                  IN  [ok |-> rest.ok,
                       text |-> IF rest.ok THEN <<nx.c>> \o rest.text ELSE <<>>]

BOM == <<"xEF", "xBB", "xBF">>

\* bytes.decode("utf-8-sig"): a leading byte order mark is dropped
Utf8SigDecode(b) ==
    IF StartsWith(b, BOM) THEN Utf8Decode(SubSeq(b, Len(BOM) + 1, Len(b)), FALSE)
    ELSE Utf8Decode(b, FALSE)

\* a single-byte decoding: table gives the character of each raw byte it has
ByteDecode(b, table) ==
    IF \E i \in 1..Len(b) : b[i] \in RawBytes /\ b[i] \notin DOMAIN table
    THEN [ok |-> FALSE, text |-> <<>>]
    ELSE [ok |-> TRUE,
          text |-> [i \in 1..Len(b) |-> IF b[i] \in RawBytes THEN table[b[i]] ELSE b[i]]]

\* bytes.decode(encoding), UnicodeDecodeError as ok = FALSE
Decode(b, encoding) ==
    CASE encoding = "utf-8" -> Utf8Decode(b, FALSE)
      [] encoding = "utf-8-sig" -> Utf8SigDecode(b)
      [] encoding = "latin-1" -> ByteDecode(b, Latin1)
      [] encoding = "cp1252" -> ByteDecode(b, Cp1252)

\* the encodings with the one that takes every byte tried first
EncodingsLatinFirst == <<"latin-1", "utf-8", "utf-8-sig", "cp1252">>

Encodings == <<"utf-8", "utf-8-sig", "latin-1", "cp1252">>

RECURSIVE DecodeFrom(_, _)
DecodeFrom(b, i) ==
    IF i > Len(Encodings)
    THEN [text |-> Utf8Decode(b, TRUE).text, encoding |-> "utf-8 ignore"]
    ELSE LET d == Decode(b, Encodings[i])
         IN  IF d.ok THEN [text |-> d.text, encoding |-> Encodings[i]]
             ELSE DecodeFrom(b, i + 1)

\* MarkdownParser._decode_content and LaTeXParser._decode_content (the same
\* code): the pad of spaces decodes to itself under every encoding
DecodeContent(bytes) ==
    LET d == DecodeFrom(bytes.head, 1)
    IN  [head |-> d.text, pad |-> bytes.pad, encoding |-> d.encoding]

\* the number of bytes of an ASCII symbol that is longer than one byte
AsciiLen ==
    ("Ann" :> 3) @@ ("Lee" :> 3) @@ ("%PDF" :> 4) @@ ("obj" :> 3) @@ ("PK" :> 2)
    @@ ("document" :> 8) @@ ("article" :> 7)
    @@ ("\\documentclass" :> 14) @@ ("\\begin" :> 6) @@ ("\\end" :> 4)
    @@ ("\\section" :> 8) @@ ("\\textbf" :> 7) @@ ("\\item" :> 5) @@ ("\\foo" :> 4)

RECURSIVE HeadLen(_)
HeadLen(h) ==
    IF h = <<>> THEN 0
    ELSE (IF Head(h) \in DOMAIN AsciiLen THEN AsciiLen[Head(h)] ELSE 1) + HeadLen(Tail(h))

\* len(file_content)
ByteLen(bytes) == HeadLen(bytes.head) + bytes.pad

\* "not file_content"
IsEmpty(bytes) == ByteLen(bytes) = 0

\* "not text.strip()": the pad is spaces
IsBlank(text) == Strip(text.head) = <<>>

\* BaseParser.get_extension: Path(filename).suffix.lower()
GetExtension(name) == Lower(name.suffix)

SUPPORTED_EXTENSIONS ==
    [PDFParser |-> {".pdf"}, MarkdownParser |-> {".md", ".markdown"},
     LaTeXParser |-> {".tex", ".latex"}]

\* BaseParser.can_handle
CanHandle(p, name) == GetExtension(name) \in SUPPORTED_EXTENSIONS[p]

MAX_FILE_SIZE == 1024 * 1024

\* str.replace: every occurrence of pat, leftmost first, none overlapping
RECURSIVE Replace(_, _, _)
Replace(t, pat, rep) ==
    IF t = <<>> THEN <<>>
    ELSE IF StartsWith(t, pat) THEN rep \o Replace(SubSeq(t, Len(pat) + 1, Len(t)), pat, rep)
    ELSE <<Head(t)>> \o Replace(Tail(t), pat, rep)

\* lines 56-57: "while three newlines in text: replace them by two"
RECURSIVE CollapseBlankLines(_)
CollapseBlankLines(t) ==
    IF Occurrences(t, <<"\n", "\n", "\n">>) = {} THEN t
    ELSE CollapseBlankLines(Replace(t, <<"\n", "\n", "\n">>, <<"\n", "\n">>))

\* MarkdownParser._clean_text: the pad of spaces goes with the final strip
CleanText(text) ==
    Strip(CollapseBlankLines(
        Replace(Replace(text.head, <<"\r", "\n">>, <<"\n">>), <<"\r">>, <<"\n">>)))

Verdict(ok, reason, ops) == [done |-> TRUE, ok |-> ok, reason |-> reason, ops |-> ops]

\* MarkdownParser.validate_file; ops are the checks made, in order
MarkdownValidate(bytes, name) ==
    IF ~CanHandle("MarkdownParser", name)
    THEN Verdict(FALSE, "Invalid file extension: expected .md or .markdown", <<"extension">>)
    ELSE IF IsEmpty(bytes) THEN Verdict(FALSE, "File is empty", <<"extension", "empty">>)
    ELSE IF ByteLen(bytes) > MAX_FILE_SIZE
         THEN Verdict(FALSE, "File too large: maximum size is 1024KB",
                      <<"extension", "empty", "size">>)
    ELSE IF IsBlank(DecodeContent(bytes))
         THEN Verdict(FALSE, "File contains no readable text",
                      <<"extension", "empty", "size", "decode">>)
    ELSE Verdict(TRUE, "", <<"extension", "empty", "size", "decode">>)

\* the command symbols of the LaTeX texts
LatexCommands ==
    {"\\documentclass", "\\begin", "\\end", "\\section", "\\textbf", "\\item", "\\foo"}

\* "\\" in text
HasBackslash(text) ==
    \E i \in 1..Len(text.head) : text.head[i] \in LatexCommands \cup {"\\"}

\* LaTeXParser.validate_file
LaTeXValidate(bytes, name) ==
    IF ~CanHandle("LaTeXParser", name)
    THEN Verdict(FALSE, "Invalid file extension: expected .tex or .latex", <<"extension">>)
    ELSE IF IsEmpty(bytes) THEN Verdict(FALSE, "File is empty", <<"extension", "empty">>)
    ELSE IF ByteLen(bytes) > MAX_FILE_SIZE
         THEN Verdict(FALSE, "File too large: maximum size is 1024KB",
                      <<"extension", "empty", "size">>)
    ELSE IF IsBlank(DecodeContent(bytes))
         THEN Verdict(FALSE, "File contains no readable text",
                      <<"extension", "empty", "size", "decode">>)
    ELSE IF ~HasBackslash(DecodeContent(bytes))
         THEN Verdict(FALSE, "File does not appear to be valid LaTeX",
                      <<"extension", "empty", "size", "decode">>)
    ELSE Verdict(TRUE, "", <<"extension", "empty", "size", "decode">>)

Parsed(text, warnings, via) ==
    [done |-> TRUE, raised |-> FALSE, text |-> text, warnings |-> warnings, via |-> via]

ParseRaised(via) ==
    [done |-> TRUE, raised |-> TRUE, text |-> <<>>, warnings |-> <<>>, via |-> via]

\* MarkdownParser.parse
MarkdownParse(bytes) == Parsed(CleanText(DecodeContent(bytes)), <<>>, "markdown")

--------------------------------------------------------------------------
(* LaTeXParser._extract_text, one operator per re.sub.  A command is one   *)
(* symbol; a word of letters that follows a command with nothing between   *)
(* is part of a longer command name for the pattern of line 106, which     *)
(* takes every letter after the backslash.                                 *)

LatexWords == {"document", "article", "Ann", "Lee"}

\* the rest of the line, its newline included
RECURSIVE RestOfLine(_)
RestOfLine(t) == IF t = <<>> \/ Head(t) = "\n" THEN t ELSE RestOfLine(Tail(t))

\* line 78: a percent sign and what follows it on the line
RECURSIVE RemoveComments(_)
RemoveComments(t) ==
    IF t = <<>> THEN <<>>
    ELSE IF Head(t) = "%" THEN RemoveComments(RestOfLine(t))
    ELSE <<Head(t)>> \o RemoveComments(Tail(t))

BeginDocument == <<"\\begin", "{", "document", "}">>

EndDocument == <<"\\end", "{", "document", "}">>

\* lines 81-87: what lies between the first \begin{document} and the first
\* \end{document} after it, the whole text when there is no such pair
DocumentBody(t) ==
    LET b == Find(t, BeginDocument)
        after == Slice(t, b + Len(BeginDocument), Len(t))
        e == Find(after, EndDocument)
    IN  IF b = -1 THEN t
        ELSE IF e = -1 THEN t
        ELSE Slice(after, 0, e)

\* the length of a braced argument {...} at the start of t, 0 when there is
\* none: the argument ends at the first closing brace
BraceArg(t) ==
    IF t # <<>> /\ Head(t) = "{" /\ Find(t, <<"}">>) # -1 THEN Find(t, <<"}">>) + 1 ELSE 0

\* line 91: the command with its braced argument
RECURSIVE RemoveWithArg(_, _)
RemoveWithArg(t, cmd) ==
    IF t = <<>> THEN <<>>
    ELSE IF Head(t) = cmd /\ BraceArg(Tail(t)) > 0
         THEN RemoveWithArg(Slice(Tail(t), BraceArg(Tail(t)), Len(Tail(t))), cmd)
    ELSE <<Head(t)>> \o RemoveWithArg(Tail(t), cmd)

\* line 92: the command alone
RemoveAlone(t, cmd) == SelectSeq(t, LAMBDA x : x # cmd)

\* the commands of REMOVE_COMMANDS that the texts use, in the order of the list
REMOVE_COMMANDS == <<"\\documentclass", "\\begin", "\\end">>

\* lines 90-92
RECURSIVE RemoveCommands(_, _)
RemoveCommands(t, i) ==
    IF i > Len(REMOVE_COMMANDS) THEN t
    ELSE RemoveCommands(RemoveAlone(RemoveWithArg(t, REMOVE_COMMANDS[i]), REMOVE_COMMANDS[i]),
                        i + 1)

\* line 96: the command and the braces go, the argument stays
RECURSIVE KeepArg(_, _)
KeepArg(t, cmd) ==
    IF t = <<>> THEN <<>>
    ELSE IF Head(t) = cmd /\ BraceArg(Tail(t)) > 0
         THEN Slice(Tail(t), 1, BraceArg(Tail(t)) - 1)
              \o KeepArg(Slice(Tail(t), BraceArg(Tail(t)), Len(Tail(t))), cmd)
    ELSE <<Head(t)>> \o KeepArg(Tail(t), cmd)

\* the commands of CONTENT_COMMANDS that the texts use, in the order of the list
CONTENT_COMMANDS == <<"\\textbf", "\\section">>

\* lines 95-96
RECURSIVE ContentCommands(_, _)
ContentCommands(t, i) ==
    IF i > Len(CONTENT_COMMANDS) THEN t
    ELSE ContentCommands(KeepArg(t, CONTENT_COMMANDS[i]), i + 1)

\* line 99: \item and the whitespace after it become a bullet and a space
RECURSIVE Items(_)
Items(t) ==
    IF t = <<>> THEN <<>>
    ELSE IF Head(t) = "\\item" THEN <<"U+2022", " ">> \o Items(LStrip(Tail(t)))
    ELSE <<Head(t)>> \o Items(Tail(t))

RECURSIVE SkipWords(_)
SkipWords(t) == IF t # <<>> /\ Head(t) \in LatexWords THEN SkipWords(Tail(t)) ELSE t

\* line 106: a backslash, the letters after it and a braced argument
RECURSIVE RemainingCommands(_)
RemainingCommands(t) ==
    IF t = <<>> THEN <<>>
    ELSE IF Head(t) \in LatexCommands
         THEN LET rest == SkipWords(Tail(t))
              IN  RemainingCommands(Slice(rest, BraceArg(rest), Len(rest)))
    ELSE <<Head(t)>> \o RemainingCommands(Tail(t))

\* line 109
Braces(t) == SelectSeq(t, LAMBDA x : x \notin {"{", "}"})

\* line 112: a run of spaces becomes one space
RECURSIVE Spaces(_)
Spaces(t) ==
    IF t = <<>> THEN <<>>
    ELSE IF Head(t) = " " /\ Tail(t) # <<>> /\ Head(Tail(t)) = " " THEN Spaces(Tail(t))
    ELSE <<Head(t)>> \o Spaces(Tail(t))

\* the whitespace at the start of t
WhiteRun(t) == Slice(t, 0, Len(t) - Len(LStrip(t)))

\* line 113: in a run of whitespace with three newlines or more, the part
\* from the first newline to the last becomes two newlines
RECURSIVE BlankLines(_)
BlankLines(t) ==
    IF t = <<>> THEN <<>>
    ELSE IF Head(t) = "\n"
         THEN LET run == WhiteRun(t)
                  last == RFind(run, <<"\n">>)
              IN  IF Len(SelectSeq(run, LAMBDA x : x = "\n")) >= 3
                  THEN <<"\n", "\n">> \o BlankLines(Slice(t, last + 1, Len(t)))
                  ELSE run \o BlankLines(Slice(t, Len(run), Len(t)))
    ELSE <<Head(t)>> \o BlankLines(Tail(t))

\* lines 116-117: every line stripped
RECURSIVE StripLines(_)
StripLines(t) ==
    LET nl == Find(t, <<"\n">>)
    IN  IF nl = -1 THEN Strip(t)
        ELSE Strip(Slice(t, 0, nl)) \o <<"\n">> \o StripLines(Slice(t, nl + 1, Len(t)))

\* LaTeXParser._extract_text; the pad of spaces acts as one space
ExtractText(text) ==
    LET latex == text.head \o (IF text.pad > 0 THEN <<" ">> ELSE <<>>)
    IN  Strip(StripLines(BlankLines(Spaces(Braces(RemainingCommands(Items(
            ContentCommands(RemoveCommands(DocumentBody(RemoveComments(latex)), 1), 1))))))))

\* LaTeXParser.parse
LaTeXParse(bytes) == Parsed(ExtractText(DecodeContent(bytes)), <<>>, "latex")

--------------------------------------------------------------------------
(* PDFParser.  What pdfplumber and pypdf do with the bytes is not code of  *)
(* this repository: doc.open is what PdfReader finds (ok, encrypted,       *)
(* corrupt, nopages when the pages cannot be listed), doc.plumber and      *)
(* doc.pypdf are what the two extractors give.                             *)

Pages(p) == [throws |-> FALSE, pages |-> p]

\* lines 56-61 and 80-85: "if page_text" drops None and "", the rest is
\* joined with a blank line
RECURSIVE JoinPages(_)
JoinPages(p) ==
    IF p = <<>> THEN <<>>
    ELSE IF Head(p) \in {NoneText, <<>>} THEN JoinPages(Tail(p))
    ELSE LET rest == JoinPages(Tail(p))
         IN  IF rest = <<>> THEN Head(p) ELSE Head(p) \o <<"\n", "\n">> \o rest

\* _parse_with_pdfplumber and _parse_with_pypdf: the same code around the
\* extractor of each library
ParseWith(extraction) ==
    IF extraction.throws THEN [raised |-> TRUE, text |-> <<>>]
    ELSE IF Strip(JoinPages(extraction.pages)) = <<>> THEN [raised |-> TRUE, text |-> <<>>]
    ELSE [raised |-> FALSE, text |-> Strip(JoinPages(extraction.pages))]

FallbackWarning == "Parsed with fallback parser - some formatting may be lost"

\* a parse that gives up when pdfplumber fails
PDFParseNoFallback(bytes) ==
    IF ~ParseWith(bytes.doc.plumber).raised
    THEN Parsed(ParseWith(bytes.doc.plumber).text, <<>>, "pdfplumber")
    ELSE ParseRaised("none")

\* PDFParser.parse
PDFParse(bytes) ==
    IF ~ParseWith(bytes.doc.plumber).raised
    THEN Parsed(ParseWith(bytes.doc.plumber).text, <<>>, "pdfplumber")
    ELSE IF ~ParseWith(bytes.doc.pypdf).raised
    THEN Parsed(ParseWith(bytes.doc.pypdf).text, <<FallbackWarning>>, "pypdf")
    ELSE ParseRaised("none")

\* a validation that does not look at the encryption flag
PDFValidateEncryptedOk(bytes, name) ==
    IF ~CanHandle("PDFParser", name)
    THEN Verdict(FALSE, "Invalid file extension: expected .pdf", <<"extension">>)
    ELSE IF IsEmpty(bytes) THEN Verdict(FALSE, "File is empty", <<"extension", "empty">>)
    ELSE IF ~StartsWith(bytes.head, <<"%PDF">>)
         THEN Verdict(FALSE, "File does not appear to be a valid PDF",
                      <<"extension", "empty", "magic">>)
    ELSE IF bytes.doc.open \in {"corrupt", "nopages"}
         THEN Verdict(FALSE, "PDF validation failed", <<"extension", "empty", "magic", "open">>)
    ELSE Verdict(TRUE, "", <<"extension", "empty", "magic", "open">>)

\* PDFParser.validate_file; ops are the checks made, in order
PDFValidate(bytes, name) ==
    IF ~CanHandle("PDFParser", name)
    THEN Verdict(FALSE, "Invalid file extension: expected .pdf", <<"extension">>)
    ELSE IF IsEmpty(bytes) THEN Verdict(FALSE, "File is empty", <<"extension", "empty">>)
    ELSE IF ~StartsWith(bytes.head, <<"%PDF">>)
         THEN Verdict(FALSE, "File does not appear to be a valid PDF",
                      <<"extension", "empty", "magic">>)
    ELSE IF bytes.doc.open = "corrupt"
         THEN Verdict(FALSE, "PDF validation failed", <<"extension", "empty", "magic", "open">>)
    ELSE IF bytes.doc.open = "encrypted"
         THEN Verdict(FALSE, "PDF is password protected",
                      <<"extension", "empty", "magic", "open">>)
    ELSE IF bytes.doc.open = "nopages"
         THEN Verdict(FALSE, "PDF validation failed", <<"extension", "empty", "magic", "open">>)
    ELSE Verdict(TRUE, "", <<"extension", "empty", "magic", "open">>)

--------------------------------------------------------------------------
(* The parsers at work: a parser object is given a file, and validate_file *)
(* and parse are called on it, in either order.                            *)

Suffixes == {".pdf", ".PDF", ".md", ".MD", ".markdown", ".tex", ".TeX", ".latex", ".txt", ""}

FileNames == [stem : {"cv"}, suffix : Suffixes]

Named(suffix) == [stem |-> "cv", suffix |-> suffix]

\* the sizes of a file with this head: the head alone, one space more, the
\* largest size the text parsers take, and one byte more than that
Pads(head) == {0, 1, MAX_FILE_SIZE - HeadLen(head), MAX_FILE_SIZE - HeadLen(head) + 1}

MarkdownSymbols == {"#", " ", "\n", "\r", "Ann"} \cup RawBytes

MarkdownHeads ==
    {<<>>} \cup {<<a>> : a \in MarkdownSymbols}
    \cup {<<a, b>> : a \in MarkdownSymbols, b \in MarkdownSymbols}
    \cup {<<"#", " ", "Ann", "\r", "\n", "\r", "\n", "\n", "\n", "Lee", "\n">>,
          <<"xEF", "xBB", "xBF", "#", " ", "Ann">>,
          <<"Ann", " ", "xC3", "xA9", "\n", "\n", "\n", "\n", "\n", "Lee">>}

LatexSymbols ==
    LatexCommands \cup {"{", "}", "%", " ", "\n", "document", "Ann", "xFF"}

LatexHeads ==
    {<<>>} \cup {<<a>> : a \in LatexSymbols}
    \cup {<<a, b>> : a \in LatexSymbols, b \in LatexSymbols}
    \cup {<<"\\documentclass", "{", "article", "}">>,
          <<"\\documentclass", "{", "article", "}", "\n">> \o BeginDocument
              \o <<"\n", "\\section", "{", "Ann", "}", "\n", "\\item", " ", "Lee", "\n">>
              \o EndDocument,
          BeginDocument \o <<"%", "Ann", "\n">> \o EndDocument,
          <<"\\textbf", "{", "Ann", " ", "xFF", "}", "\n", "\n", " ", "\n", "\\foo", "Lee",
            "{", "Ann", "}", "Lee">>}

File(head, pad, doc) == [head |-> head, pad |-> pad, doc |-> doc]

PageTexts == {NoneText, <<>>, <<" ">>, <<"Ann">>, <<"Ann", "\n">>}

Extractions ==
    {Throws} \cup {Pages(<<>>)} \cup {Pages(<<a>>) : a \in PageTexts}
    \cup {Pages(<<a, b>>) : a \in PageTexts, b \in PageTexts}

PdfDocs ==
    [open : {"ok"}, plumber : Extractions, pypdf : Extractions]
    \cup [open : {"encrypted", "corrupt", "nopages"},
          plumber : {Throws, Pages(<<<<"Ann">>>>)}, pypdf : {Throws, Pages(<<<<"Ann">>>>)}]

PdfHead == <<"%PDF", "obj">>

\* the files given to each parser
ParserInputs ==
    [parser : {"PDFParser", "MarkdownParser", "LaTeXParser"}, filename : FileNames,
     file_content : {NoFile, File(<<"Ann">>, 0, NoDoc), File(<<"\\foo", "Ann">>, 0, NoDoc),
                     File(PdfHead, 0, [open |-> "ok", plumber |-> Pages(<<<<"Ann">>>>),
                                       pypdf |-> Pages(<<<<"Ann">>>>)])}]
    \cup UNION {{[parser |-> "MarkdownParser", filename |-> Named(".md"),
                   file_content |-> File(h, p, NoDoc)] : p \in Pads(h)} : h \in MarkdownHeads}
    \cup UNION {{[parser |-> "LaTeXParser", filename |-> Named(".tex"),
                   file_content |-> File(h, p, NoDoc)] : p \in Pads(h)} : h \in LatexHeads}
    \cup {[parser |-> "PDFParser", filename |-> Named(".pdf"),
           file_content |-> File(PdfHead, 0, d)] : d \in PdfDocs}
    \cup {[parser |-> "PDFParser", filename |-> Named(".pdf"),
           file_content |-> File(h, p, d)] :
              h \in {PdfHead, <<"PK", "obj">>, <<"%", "PDF">>},
              p \in {1, MAX_FILE_SIZE, 10 * MAX_FILE_SIZE},
              d \in {NoDoc, [open |-> "ok", plumber |-> Pages(<<<<"Ann">>>>),
                             pypdf |-> Pages(<<<<"Ann">>>>)]}}

InitParse ==
    /\ pc = "idle"
    /\ resume_text = NoneValue
    /\ github_data = NoneValue
    /\ llm_calls = 0
    /\ content = NoneText
    /\ clean_content = NoneText
    /\ parsed = JNull
    /\ marker = 0
    /\ result = NoResult
    /\ error = "none"
    /\ error_message = <<>>
    /\ provider_error = NoneValue
    /\ stages = <<>>
    /\ \E input \in ParserInputs :
          /\ parser = input.parser
          /\ filename = input.filename
          /\ file_content = input.file_content
    /\ validation = NotValidated
    /\ validate_ops = <<>>
    /\ parse_result = NotParsed
    /\ ServicesIdle
    /\ StoreIdle

\* validate_file of the parser at work
ValidateWith(p, bytes, name) ==
    CASE p = "PDFParser" -> PDFValidate(bytes, name)
      [] p = "MarkdownParser" -> MarkdownValidate(bytes, name)
      [] p = "LaTeXParser" -> LaTeXValidate(bytes, name)

\* parse of the parser at work
ParseWithParser(p, bytes) ==
    CASE p = "PDFParser" -> PDFParse(bytes)
      [] p = "MarkdownParser" -> MarkdownParse(bytes)
      [] p = "LaTeXParser" -> LaTeXParse(bytes)

ValidateFile ==
    /\ parser # "none"
    /\ ~validation.done
    /\ LET v == ValidateWith(parser, file_content, filename)
       IN  /\ validation' = [done |-> TRUE, ok |-> v.ok, reason |-> v.reason]
           /\ validate_ops' = v.ops
    /\ UNCHANGED <<parser, filename, file_content, parse_result>>
    /\ UNCHANGED <<pipelineVars, rankerVars, promptVars, sanitizerVars, storeVars>>

ParseFile ==
    /\ parser # "none"
    /\ ~parse_result.done
    /\ parse_result' = ParseWithParser(parser, file_content)
    /\ UNCHANGED <<parser, filename, file_content, validation, validate_ops>>
    /\ UNCHANGED <<pipelineVars, rankerVars, promptVars, sanitizerVars, storeVars>>

NextParse == ValidateFile \/ ParseFile

SpecParse == InitParse /\ [][NextParse]_vars

--------------------------------------------------------------------------
(* Claims about the parsers *)

max_upload_size_mb == 10

\* Settings.max_upload_size_bytes: the size above which the upload route
\* turns a file away, the one size limit a PDF file meets
max_upload_size_bytes == max_upload_size_mb * 1024 * 1024

\* the greatest number of bytes a parser is to take
MaxByteLength(p) == IF p = "PDFParser" THEN max_upload_size_bytes ELSE MAX_FILE_SIZE

\* validate_file has returned
Validated == parser # "none" /\ validation.done

\* validate_file decoded the bytes or handed them to a PDF library
ContentRead == \E i \in 1..Len(validate_ops) : validate_ops[i] \in {"decode", "open"}

\* C16: validate_file of each of the three parsers rejects a file longer
\* than the parser's maximum byte length, and has not decoded or opened the
\* content when it does so.
C16_OversizeRejectedUnread ==
    (Validated /\ ByteLen(file_content) > MaxByteLength(parser))
        => (~validation.ok /\ ~ContentRead)

\* parse of the PDF parser has returned or raised
PdfParsed == parser = "PDFParser" /\ parse_result.done

\* the text an extractor yields, none when it throws
Yield(extraction) == IF extraction.throws THEN <<>> ELSE JoinPages(extraction.pages)

HasText(text) == \E i \in 1..Len(text) : text[i] \notin WS

\* C17: PDF parse returns the text of the primary extractor without a
\* warning when that text has a non-whitespace character; otherwise it
\* returns the text of the fallback extractor with the degraded-fidelity
\* warning when that text has one; it raises only when neither has.
C17_PdfPrimaryThenFallback ==
    PdfParsed =>
        LET primary == Yield(file_content.doc.plumber)
            fallback == Yield(file_content.doc.pypdf)
        IN  IF HasText(primary)
            THEN /\ ~parse_result.raised
                 /\ parse_result.text = Strip(primary)
                 /\ parse_result.warnings = <<>>
            ELSE IF HasText(fallback)
            THEN /\ ~parse_result.raised
                 /\ parse_result.text = Strip(fallback)
                 /\ parse_result.warnings = <<FallbackWarning>>
            ELSE parse_result.raised

\* the primary extractor gave pages without text, the fallback gave text
C17_Witness ==
    /\ PdfParsed
    /\ ~file_content.doc.plumber.throws
    /\ file_content.doc.plumber.pages = <<NoneText, <<" ">>>>
    /\ file_content.doc.pypdf.pages = <<<<"Ann", "\n">>, <<"Ann">>>>
    /\ parse_result.text = <<"Ann", "\n", "\n", "\n", "Ann">>
    /\ parse_result.warnings = <<FallbackWarning>>

\* validate_file of the PDF parser has returned
PdfValidated == parser = "PDFParser" /\ validation.done

PdfMagic == StartsWith(file_content.head, <<"%PDF">>)

\* C18: PDF validation returns not-ok with a reason when the content does
\* not start with %PDF, when the document is encrypted and when its pages
\* cannot be listed; it returns ok only for a .pdf name (in either case) and
\* content that is not empty, starts with %PDF, is not encrypted and has
\* pages that can be listed.
C18_PdfValidation ==
    PdfValidated =>
        /\ (~PdfMagic \/ file_content.doc.open \in {"encrypted", "corrupt", "nopages"})
               => (~validation.ok /\ validation.reason # "")
        /\ validation.ok =>
               /\ filename.suffix \in {".pdf", ".PDF"}
               /\ ByteLen(file_content) > 0
               /\ PdfMagic
               /\ file_content.doc.open = "ok"

\* an encrypted document under a .pdf name is turned away as password protected
C18_Witness ==
    /\ PdfValidated
    /\ filename.suffix = ".pdf"
    /\ PdfMagic
    /\ file_content.doc.open = "encrypted"
    /\ ~validation.ok
    /\ validation.reason = "PDF is password protected"

\* parse has returned a ParseResult
ParseReturned == parser # "none" /\ parse_result.done /\ ~parse_result.raised

\* C19: parse of every parser raises when no text can be recovered from the
\* file: the text of a ParseResult it returns is never empty.
C19_ParseResultHasText == ParseReturned => parse_result.text # <<>>

\* parse of the Markdown or the LaTeX parser has returned or raised
TextParsed == parser \in {"MarkdownParser", "LaTeXParser"} /\ parse_result.done

\* the text of the first of UTF-8, UTF-8 with BOM, Latin-1 and CP1252 that
\* decodes the bytes, the lossy UTF-8 text when none does
FirstDecoding(bytes) ==
    [head |-> IF Utf8Decode(bytes.head, FALSE).ok THEN Utf8Decode(bytes.head, FALSE).text
              ELSE IF Utf8SigDecode(bytes.head).ok THEN Utf8SigDecode(bytes.head).text
              ELSE IF ByteDecode(bytes.head, Latin1).ok THEN ByteDecode(bytes.head, Latin1).text
              ELSE IF ByteDecode(bytes.head, Cp1252).ok THEN ByteDecode(bytes.head, Cp1252).text
              ELSE Utf8Decode(bytes.head, TRUE).text,
     pad |-> bytes.pad]

\* C20: for every byte sequence, parse of the Markdown and of the LaTeX
\* parser does not raise, and the text it works on is that of the first
\* encoding, in the order UTF-8, UTF-8 with BOM, Latin-1, CP1252, that
\* decodes the bytes without error, or the lossy UTF-8 text when none does.
C20_FirstEncodingThatDecodes ==
    TextParsed =>
        /\ ~parse_result.raised
        /\ parser = "MarkdownParser" =>
               parse_result.text = CleanText(FirstDecoding(file_content))
        /\ parser = "LaTeXParser" =>
               parse_result.text = ExtractText(FirstDecoding(file_content))

\* bytes that are not UTF-8, with or without a mark, are read as Latin-1
C20_Witness ==
    /\ TextParsed
    /\ parser = "MarkdownParser"
    /\ file_content.head = <<"xC3", "xFF">>
    /\ ~Utf8Decode(file_content.head, FALSE).ok
    /\ ~Utf8SigDecode(file_content.head).ok
    /\ parse_result.text = <<"U+00C3", "U+00FF">>

--------------------------------------------------------------------------
(* GitHubService._fetch_repositories: the relevance ranker.  A repository  *)
(* is a record of the attributes the service reads; pushed_at holds the    *)
(* whole days between the last push and now, as line 139 computes them;    *)
(* name is the position in the fetch order.                                *)

MAX_REPOS == 15

\* a filter that lets forks through
ShouldIncludeRepoForks(repo) ==
    IF repo.archived THEN FALSE
    ELSE IF ~TruthyInput(repo.description) /\ repo.size = 0 THEN FALSE
    ELSE TRUE

\* GitHubService._should_include_repo
ShouldIncludeRepo(repo) ==
    IF repo.archived THEN FALSE
    ELSE IF repo.fork THEN FALSE
    ELSE IF ~TruthyInput(repo.description) /\ repo.size = 0 THEN FALSE
    ELSE TRUE

Min(a, b) == IF a <= b THEN a ELSE b

\* a score whose star term has no cap
CalculateRepoScoreUncapped(repo) ==
    (IF ~repo.pushed_at.set THEN 0
     ELSE IF repo.pushed_at.days < 30 THEN 50
     ELSE IF repo.pushed_at.days < 90 THEN 30
     ELSE IF repo.pushed_at.days < 180 THEN 15
     ELSE 0)
    + repo.stargazers_count * 5
    + Min(repo.forks_count * 2, 20)
    + (IF TruthyInput(repo.description) THEN 10 ELSE 0)
    + (IF repo.topics # <<>> THEN 10 ELSE 0)
    + (IF 10 < repo.size /\ repo.size < 100000 THEN 5 ELSE 0)

\* GitHubService._calculate_repo_score
CalculateRepoScore(repo) ==
    (IF ~repo.pushed_at.set THEN 0
     ELSE IF repo.pushed_at.days < 30 THEN 50
     ELSE IF repo.pushed_at.days < 90 THEN 30
     ELSE IF repo.pushed_at.days < 180 THEN 15
     ELSE 0)
    + Min(repo.stargazers_count * 5, 50)
    + Min(repo.forks_count * 2, 20)
    + (IF TruthyInput(repo.description) THEN 10 ELSE 0)
    + (IF repo.topics # <<>> THEN 10 ELSE 0)
    + (IF 10 < repo.size /\ repo.size < 100000 THEN 5 ELSE 0)

\* lines 93-96
FilteredRepos(repos) == SelectSeq(repos, ShouldIncludeRepo)

\* lines 99-102
ScoredRepos(repos) == [i \in 1..Len(repos) |-> [repo |-> repos[i], score |-> CalculateRepoScore(repos[i])]]

\* an insertion that puts the entry before those of the same score
RECURSIVE InsertBeforeTies(_, _)
InsertBeforeTies(sorted, x) ==
    IF sorted = <<>> THEN <<x>>
    ELSE IF Head(sorted).score > x.score
         THEN <<Head(sorted)>> \o InsertBeforeTies(Tail(sorted), x)
    ELSE <<x>> \o sorted

\* one entry put into a list sorted by score, highest first, behind the
\* entries of the same score
RECURSIVE Insert(_, _)
Insert(sorted, x) ==
    IF sorted = <<>> THEN <<x>>
    ELSE IF Head(sorted).score >= x.score THEN <<Head(sorted)>> \o Insert(Tail(sorted), x)
    ELSE <<x>> \o sorted

\* line 103: list.sort(key=score, reverse=True), a stable sort
RECURSIVE SortByScore(_)
SortByScore(scored) ==
    IF scored = <<>> THEN <<>>
    ELSE Insert(SortByScore(SubSeq(scored, 1, Len(scored) - 1)), scored[Len(scored)])

\* line 106: scored_repos[:MAX_REPOS]
TopRepos(scored) == SubSeq(scored, 1, Min(Len(scored), MAX_REPOS))

\* GitHubService._fetch_repositories, up to the extraction of the kept ones
FetchedRepositories(repos) == TopRepos(SortByScore(ScoredRepos(FilteredRepos(repos))))

Repo(archived, fork, description, size, pushed_at, stars, forks, topics) ==
    [name |-> 0, archived |-> archived, fork |-> fork, description |-> description,
     size |-> size, pushed_at |-> pushed_at, stargazers_count |-> stars,
     forks_count |-> forks, topics |-> topics]

NeverPushed == [set |-> FALSE, days |-> 0]

Pushed(days) == [set |-> TRUE, days |-> days]

Descriptions == {NoneValue, "", "x"}

\* repositories that differ in what the filter reads
FilterCases ==
    {Repo(a, f, d, s, Pushed(5), 1, 0, <<>>) :
        a \in BOOLEAN, f \in BOOLEAN, d \in Descriptions, s \in {0, 500}}

\* repositories that differ in what the score reads
ScoreCases ==
    {Repo(FALSE, FALSE, d, s, p, st, fk, t) :
        d \in Descriptions, s \in {0, 10, 11, 500, 99999, 100000},
        p \in {NeverPushed} \cup {Pushed(n) : n \in {0, 10, 29, 30, 89, 90, 179, 180, 400}},
        st \in {0, 3, 10, 11, 100}, fk \in {0, 1, 10, 11}, t \in {<<>>, <<"a">>}}

\* a few repositories of scores 92, 92, 15, 145 and two that the filter drops
RankPool ==
    {Repo(FALSE, FALSE, "x", 500, Pushed(10), 3, 1, <<"a">>),
     Repo(FALSE, FALSE, "x", 5, Pushed(10), 4, 1, <<"a">>),
     Repo(FALSE, FALSE, NoneValue, 500, NeverPushed, 2, 0, <<>>),
     Repo(FALSE, FALSE, "x", 500, Pushed(0), 100, 11, <<"a">>),
     Repo(TRUE, FALSE, "x", 500, Pushed(0), 100, 11, <<"a">>),
     Repo(FALSE, TRUE, "x", 500, Pushed(0), 100, 11, <<"a">>)}

Repeat(x, n) == [i \in 1..n |-> x]

\* the fetch lists: one repository, a few, and more than MAX_REPOS
FetchLists ==
    {<<>>} \cup {<<r>> : r \in FilterCases \cup ScoreCases}
    \cup {<<a, b>> : a \in RankPool, b \in RankPool}
    \cup {<<a, b, c>> : a \in RankPool, b \in RankPool, c \in RankPool}
    \cup {Repeat(a, n) \o <<b>> : a \in RankPool, b \in RankPool,
              n \in {MAX_REPOS - 1, MAX_REPOS, MAX_REPOS + 1}}
    \cup {<<b>> \o Repeat(a, n) \o <<b, a>> : a \in RankPool, b \in RankPool,
              n \in {MAX_REPOS - 2, MAX_REPOS - 1, MAX_REPOS}}

\* each repository named by its place in the fetch order
Numbered(repos) == [i \in 1..Len(repos) |-> [repos[i] EXCEPT !.name = i]]

InitRank ==
    /\ PipelineIdle
    /\ ParserIdle
    /\ StoreIdle
    /\ \E repos \in FetchLists : all_repos = Numbered(repos)
    /\ top_repos = NotRanked
    /\ prompt_args = NoArgs
    /\ user_prompt = NoPrompt
    /\ sanitize_arg = NoneValue
    /\ sanitize_out = <<>>

FetchRepositories ==
    /\ ~top_repos.done
    /\ top_repos' = [done |-> TRUE, repos |-> FetchedRepositories(all_repos)]
    /\ UNCHANGED <<all_repos, pipelineVars, parserVars, promptVars, sanitizerVars, storeVars>>

NextRank == FetchRepositories

SpecRank == InitRank /\ [][NextRank]_vars

\* _fetch_repositories has returned
Ranked == top_repos.done

\* the filter's condition as the specification words it
Eligible(repo) ==
    /\ ~repo.archived
    /\ ~repo.fork
    /\ (repo.description \notin {NoneValue, ""} \/ repo.size # 0)

Kept == {top_repos.repos[i].repo.name : i \in 1..Len(top_repos.repos)}

EligibleNames == {i \in 1..Len(all_repos) : Eligible(all_repos[i])}

\* C21: the ranker's output holds a fetched repository only if it is not
\* archived, is not a fork and has a description or a size other than 0,
\* and the filter drops no other repository: whenever the eligible ones
\* are at most MAX_REPOS, all of them are in the output.
C21_FilterExact ==
    Ranked =>
        /\ \A i \in 1..Len(top_repos.repos) :
               /\ top_repos.repos[i].repo.name \in 1..Len(all_repos)
               /\ top_repos.repos[i].repo = all_repos[top_repos.repos[i].repo.name]
               /\ Eligible(top_repos.repos[i].repo)
        /\ Cardinality(EligibleNames) <= MAX_REPOS => Kept = EligibleNames

\* the specification's example: of an eligible, an archived and a forked
\* repository only the first is returned
C21_Witness ==
    /\ Ranked
    /\ Len(all_repos) = 3
    /\ Eligible(all_repos[1])
    /\ all_repos[2].archived
    /\ all_repos[3].fork
    /\ Kept = {1}

\* the terms of the score as the specification lists them
RecencyTerm(repo) ==
    CASE ~repo.pushed_at.set -> 0
      [] repo.pushed_at.set /\ repo.pushed_at.days < 30 -> 50
      [] repo.pushed_at.set /\ repo.pushed_at.days >= 30 /\ repo.pushed_at.days < 90 -> 30
      [] repo.pushed_at.set /\ repo.pushed_at.days >= 90 /\ repo.pushed_at.days < 180 -> 15
      [] repo.pushed_at.set /\ repo.pushed_at.days >= 180 -> 0

StarsTerm(repo) == IF repo.stargazers_count >= 10 THEN 50 ELSE repo.stargazers_count * 5

ForksTerm(repo) == IF repo.forks_count >= 10 THEN 20 ELSE repo.forks_count * 2

DescriptionTerm(repo) == IF repo.description \in {NoneValue, ""} THEN 0 ELSE 10

TopicsTerm(repo) == IF Len(repo.topics) >= 1 THEN 10 ELSE 0

SizeTerm(repo) == IF repo.size \in 11..99999 THEN 5 ELSE 0

\* the repository of the specification's example
IsExampleRepo(repo) ==
    /\ repo.pushed_at = Pushed(10)
    /\ repo.stargazers_count = 3
    /\ repo.forks_count = 1
    /\ repo.description = "x"
    /\ repo.topics = <<"a">>
    /\ repo.size = 500

\* C22: the score of a repository is the sum of the recency, stars, forks,
\* description, topics and size terms; it is never negative and never above
\* 145; the repository of the example scores 92.
C22_ScoreIsSumOfTerms ==
    Ranked =>
        \A i \in 1..Len(top_repos.repos) :
            LET e == top_repos.repos[i]
            IN  /\ e.score = RecencyTerm(e.repo) + StarsTerm(e.repo) + ForksTerm(e.repo)
                             + DescriptionTerm(e.repo) + TopicsTerm(e.repo) + SizeTerm(e.repo)
                /\ e.score >= 0
                /\ e.score <= 145
                /\ IsExampleRepo(e.repo) => e.score = 92

\* the example repository was ranked, and a repository with 100 stars too
C22_Witness ==
    /\ Ranked
    /\ Len(top_repos.repos) = 2
    /\ IsExampleRepo(top_repos.repos[2].repo)
    /\ top_repos.repos[2].score = 92
    /\ top_repos.repos[1].repo.stargazers_count = 100
    /\ top_repos.repos[1].score = 145

\* C23: the output is the eligible repositories by score, highest first,
\* those of equal score in fetch order, cut to the first MAX_REPOS; an
\* eligible repository left out scores no higher than any returned one.
C23_SortedStableTruncated ==
    Ranked =>
        LET out == top_repos.repos
        IN  /\ Len(out) = Min(Cardinality(EligibleNames), MAX_REPOS)
            /\ \A i \in 1..Len(out) : out[i].repo.name \in EligibleNames
            /\ \A i \in 1..Len(out) : \A j \in 1..Len(out) :
                   i < j => \/ out[i].score > out[j].score
                            \/ /\ out[i].score = out[j].score
                               /\ out[i].repo.name < out[j].repo.name
            /\ \A n \in EligibleNames \ Kept : \A i \in 1..Len(out) :
                   \/ out[i].score > CalculateRepoScore(all_repos[n])
                   \/ /\ out[i].score = CalculateRepoScore(all_repos[n])
                      /\ out[i].repo.name < n

\* seventeen eligible repositories: the one with the highest score was
\* fetched last and is returned first, two of the others are left out
C23_Witness ==
    /\ Ranked
    /\ Cardinality(EligibleNames) = MAX_REPOS + 2
    /\ Len(top_repos.repos) = MAX_REPOS
    /\ top_repos.repos[1].repo.name = MAX_REPOS + 2
    /\ top_repos.repos[2].repo.name = 1
    /\ top_repos.repos[2].score = top_repos.repos[MAX_REPOS].score
    /\ top_repos.repos[1].score > top_repos.repos[2].score

--------------------------------------------------------------------------
(* core/utils.py: sanitize_text.  A text is a sequence of characters; a    *)
(* character outside ASCII or without a glyph is named by its code point.  *)

\* the characters the texts are made of
SanitizerChars ==
    {"A", " ", "<", "U+00E9", "U+0000", "U+0001", "U+007F", "U+00A0", "U+200B",
     "\n", "\r", "\t"}

\* str.isprintable of one character: letters, punctuation and the space are
\* printable; control and format characters and the other separators are not
IsPrintable(c) ==
    c \notin {"U+0000", "U+0001", "U+007F", "U+00A0", "U+200B", "\n", "\r", "\t"}

\* a sanitizer that removes the null bytes and nothing else
SanitizeTextNulOnly(t) ==
    IF t \in {NoneText, <<>>} THEN <<>>
    ELSE SelectSeq(t, LAMBDA c : c # "U+0000")

\* sanitize_text
SanitizeText(t) ==
    IF t \in {NoneText, <<>>} THEN <<>>
    ELSE SelectSeq(SelectSeq(t, LAMBDA c : c # "U+0000"),
                   LAMBDA c : IsPrintable(c) \/ c \in {"\n", "\r", "\t"})

SanitizerTexts ==
    {NoneText, <<>>} \cup {<<a>> : a \in SanitizerChars}
    \cup {<<a, b>> : a \in SanitizerChars, b \in SanitizerChars}
    \cup {<<a, b, c>> : a \in SanitizerChars, b \in SanitizerChars, c \in SanitizerChars}
    \cup {<<"A", "U+0000", " ", "U+0000", "A", "U+0001", "\n", "U+00E9", "\t">>}

InitSanitize ==
    /\ PipelineIdle
    /\ ParserIdle
    /\ StoreIdle
    /\ all_repos = <<>>
    /\ top_repos = NotRanked
    /\ prompt_args = NoArgs
    /\ user_prompt = NoPrompt
    /\ sanitize_arg \in SanitizerTexts
    /\ sanitize_out = <<>>

\* the first call is on the text, the next on what the call before returned
Sanitize ==
    /\ sanitize_arg # NoneValue
    /\ Len(sanitize_out) < 2
    /\ sanitize_out' = Append(sanitize_out,
           SanitizeText(IF sanitize_out = <<>> THEN sanitize_arg
                        ELSE sanitize_out[Len(sanitize_out)]))
    /\ UNCHANGED <<sanitize_arg, pipelineVars, parserVars, rankerVars, promptVars, storeVars>>

NextSanitize == Sanitize

SpecSanitize == InitSanitize /\ [][NextSanitize]_vars

\* the characters sanitize is to keep, as the specification names them
Allowed == {"A", " ", "<", "U+00E9", "\n", "\r", "\t"}

ControlChars == {"U+0000", "U+0001", "U+007F", "\n", "\r", "\t"}

\* the characters of a text, None being the empty text
CharsOf(t) == IF t = NoneText THEN <<>> ELSE t

\* the places of t that hold an allowed character, in order
RECURSIVE AllowedPlaces(_, _)
AllowedPlaces(t, i) ==
    IF i > Len(t) THEN <<>>
    ELSE (IF t[i] \in Allowed THEN <<i>> ELSE <<>>) \o AllowedPlaces(t, i + 1)

\* C25: sanitize returns, for every text, exactly the characters of the text
\* that are printable or one of \n \r \t, in their order: the result holds
\* no U+0000 and no other control character, a clean text is returned
\* unchanged, and sanitizing the result again changes nothing.
C25_SanitizeExactAndIdempotent ==
    LET t == CharsOf(sanitize_arg)
        places == AllowedPlaces(t, 1)
    IN  /\ Len(sanitize_out) >= 1 =>
               /\ sanitize_out[1] = [k \in 1..Len(places) |-> t[places[k]]]
               /\ \A k \in 1..Len(sanitize_out[1]) :
                      sanitize_out[1][k] \notin ControlChars \ {"\n", "\r", "\t"}
               /\ (\A i \in 1..Len(t) : t[i] \in Allowed) => sanitize_out[1] = t
        /\ Len(sanitize_out) >= 2 => sanitize_out[2] = sanitize_out[1]

\* a text with null bytes, a control character and kept whitespace was
\* sanitized twice
C25_Witness ==
    /\ sanitize_arg = <<"A", "U+0000", " ", "U+0000", "A", "U+0001", "\n", "U+00E9", "\t">>
    /\ Len(sanitize_out) = 2
    /\ sanitize_out[1] = <<"A", " ", "A", "\n", "U+00E9", "\t">>
    /\ sanitize_out[2] = sanitize_out[1]

--------------------------------------------------------------------------
(* LLMService._build_user_prompt.  The prompt is the list of its parts,    *)
(* which the code joins with newlines; a part is a sequence of symbols, a  *)
(* tag being one symbol.                                                   *)

\* Python truth value of a text
TruthyText(t) == t \notin {NoneText, <<>>}

\* what the request says of the settings: nothing, settings without a
\* project count, or settings with one
NoSettings == [present |-> FALSE, has_count |-> FALSE, project_count |-> 0]

DefaultSettings == [present |-> TRUE, has_count |-> FALSE, project_count |-> 0]

SettingsWith(n) == [present |-> TRUE, has_count |-> TRUE, project_count |-> n]

\* Field(3, ge=1, le=10)
ProjectCountDefault == 3

ProjectCountMin == 1

ProjectCountMax == 10

\* StructuringSettings: the request is turned away when the count is out of range
SettingsValid(st) ==
    st.present /\ st.has_count =>
        st.project_count >= ProjectCountMin /\ st.project_count <= ProjectCountMax

\* settings.project_count of the validated object
ProjectCount(st) == IF st.has_count THEN st.project_count ELSE ProjectCountDefault

\* lines 100-106
ResumeBlock(rt) ==
    << <<"<unstructured_resume>">>,
       IF TruthyText(rt) THEN Strip(SanitizeText(rt)) ELSE <<"Not provided">>,
       <<"</unstructured_resume>">>,
       <<>> >>

\* lines 109-138: the profile and one repository digest
GithubBlock(gd) ==
    << <<"<github_data>">> >>
    \o (IF TruthyInput(gd)
        THEN << <<"PROFILE:">>, <<"  Username: ", "ann">>, <<"  Name: ", "Ann Lee">>,
                <<"  Bio: ">>, <<"  Location: ">>, <<"  Email: ", "None">>, <<>>,
                <<"REPOSITORIES (", "1", " total):">>, <<"1", ". ", "forge">>,
                <<"   Description: ", "No description">>, <<"   Languages: ">>,
                <<"   URL: ", "N/A">>, <<"   Stars: ", "0">>, <<>> >>
        ELSE << <<"Not provided">> >>)
    \o << <<"</github_data>">>, <<>> >>

\* lines 141-148
CustomBlock(ci) ==
    IF TruthyText(ci)
    THEN << <<"<custom_instructions>">>, Strip(ci), <<"</custom_instructions>">>, <<>>,
            <<"</custom_instructions>">>, <<>> >>
    ELSE <<>>

\* lines 150-163
Directives(st, ci) ==
    << <<"GOAL: Extract and normalize information from the tags above into the JSON schema.">>,
       <<"RULES:">>, <<"1. Use only the provided information.">> >>
    \o (IF st.present
        THEN << <<"2. Write the resume content in ", "English", ".">>,
                <<"3. Use a ", "Standard", " writing style.">>,
                <<"4. Select exactly ", ToString(ProjectCount(st)),
                  " of the most relevant projects.">> >>
        ELSE << <<"2. Include 5-8 most relevant projects.">> >>)
    \o (IF TruthyText(ci)
        THEN << <<"5. Follow the custom instructions provided above.">> >>
        ELSE <<>>)

\* _build_user_prompt
BuildUserPromptParts(rt, gd, ci, st) ==
    << <<"Please structure the following data into a canonical resume.">>, <<>> >>
    \o ResumeBlock(rt) \o GithubBlock(gd) \o CustomBlock(ci) \o Directives(st, ci)

PromptResumeTexts ==
    {NoneText, <<>>, <<"Ann", " ", "Lee">>, <<" ", "Ann", "U+0000", "U+0001", "\n">>}

PromptCustomInstructions == {NoneText, <<>>, <<" ">>, <<" ", "Be", " ", "brief", "\n">>}

PromptSettings ==
    {NoSettings, DefaultSettings}
    \cup {SettingsWith(n) : n \in (ProjectCountMin - 1)..(ProjectCountMax + 1)}

\* the requests: at least one data source is given (line 184)
PromptArgs ==
    {a \in [given : {TRUE}, resume_text : PromptResumeTexts, github_data : GithubDataValues,
            custom_instructions : PromptCustomInstructions, settings : PromptSettings] :
        TruthyText(a.resume_text) \/ TruthyInput(a.github_data)}

InitPrompt ==
    /\ PipelineIdle
    /\ ParserIdle
    /\ StoreIdle
    /\ all_repos = <<>>
    /\ top_repos = NotRanked
    /\ prompt_args \in PromptArgs
    /\ user_prompt = NoPrompt
    /\ sanitize_arg = NoneValue
    /\ sanitize_out = <<>>

\* the request is validated and the prompt built
BuildUserPrompt ==
    /\ prompt_args.given
    /\ ~user_prompt.built
    /\ ~user_prompt.rejected
    /\ IF SettingsValid(prompt_args.settings)
       THEN user_prompt' =
                [built |-> TRUE, rejected |-> FALSE,
                 parts |-> BuildUserPromptParts(prompt_args.resume_text, prompt_args.github_data,
                               prompt_args.custom_instructions, prompt_args.settings)]
       ELSE user_prompt' = [built |-> FALSE, rejected |-> TRUE, parts |-> <<>>]
    /\ UNCHANGED <<prompt_args, pipelineVars, parserVars, rankerVars, sanitizerVars, storeVars>>

NextPrompt == BuildUserPrompt

SpecPrompt == InitPrompt /\ [][NextPrompt]_vars

\* the count the request configures, the default when it configures none
ConfiguredCount ==
    IF prompt_args.settings.present /\ prompt_args.settings.has_count
    THEN prompt_args.settings.project_count
    ELSE 3

\* the directive that gives the number of projects n
CountDirective(n) ==
    <<"4. Select exactly ", ToString(n), " of the most relevant projects.">>

\* C24: every user prompt built has a directive that gives the exact number
\* of projects to select: the configured count, between 1 and 10, and 3 when
\* none is configured.
C24_ExactProjectCountDirective ==
    user_prompt.built =>
        /\ ConfiguredCount \in 1..10
        /\ \E i \in 1..Len(user_prompt.parts) :
               user_prompt.parts[i] = CountDirective(ConfiguredCount)

\* the places of the parts in which the symbol occurs
PlacesOf(symbol) ==
    {i \in 1..Len(user_prompt.parts) :
        \E k \in 1..Len(user_prompt.parts[i]) : user_prompt.parts[i][k] = symbol}

\* the symbol occurs once in the whole prompt
Once(symbol) ==
    /\ Cardinality(PlacesOf(symbol)) = 1
    /\ \A i \in PlacesOf(symbol) :
           Cardinality({k \in 1..Len(user_prompt.parts[i]) :
                            user_prompt.parts[i][k] = symbol}) = 1

Place(symbol) == CHOOSE i \in PlacesOf(symbol) : TRUE

\* C28: in every user prompt built, the unstructured_resume and github_data
\* blocks have one opening tag followed by one closing tag each, the
\* custom_instructions block has one of each when custom instructions are
\* given and none otherwise, and the blocks come in that order, not nested.
C28_TaggedBlocksWellFormed ==
    user_prompt.built =>
        /\ Once("<unstructured_resume>") /\ Once("</unstructured_resume>")
        /\ Once("<github_data>") /\ Once("</github_data>")
        /\ Place("<unstructured_resume>") < Place("</unstructured_resume>")
        /\ Place("</unstructured_resume>") < Place("<github_data>")
        /\ Place("<github_data>") < Place("</github_data>")
        /\ IF TruthyText(prompt_args.custom_instructions)
           THEN /\ Once("<custom_instructions>") /\ Once("</custom_instructions>")
                /\ Place("</github_data>") < Place("<custom_instructions>")
                /\ Place("<custom_instructions>") < Place("</custom_instructions>")
           ELSE PlacesOf("<custom_instructions>") \cup PlacesOf("</custom_instructions>") = {}

--------------------------------------------------------------------------
(* The order of the stages of structure_resume *)

StageOrder == <<"call", "recover", "reconcile", "validate">>

\* the stages that have run when the run stopped with this error
StagesAtFailure ==
    CASE error = "precondition" -> <<>>
      [] error = "llm" -> SubSeq(StageOrder, 1, 1)
      [] error = "content" -> SubSeq(StageOrder, 1, 1)
      [] error = "recovery" -> SubSeq(StageOrder, 1, 2)
      [] OTHER -> stages

\* how often the stage has run
TimesRun(stage) == Cardinality({i \in 1..Len(stages) : stages[i] = stage})

\* C27: the stages of a run of structure are a prefix of model call, response
\* recovery, reconciliation, validation; reconciliation has run once in every
\* run that reached validation, only on an object the recovery gave, and
\* never after validation; a run that failed in a stage has run no later stage.
C27_StagesInOrder ==
    /\ Len(stages) <= Len(StageOrder)
    /\ stages = SubSeq(StageOrder, 1, Len(stages))
    /\ TimesRun("reconcile") <= 1
    /\ TimesRun("validate") = 1 => TimesRun("reconcile") = 1 /\ stages[Len(stages)] = "validate"
    /\ TimesRun("reconcile") = 1 => RecoverObject(clean_content).ok /\ error # "recovery"
    /\ pc = "failed" => /\ stages = StagesAtFailure
                        /\ error = "schema" => Len(stages) \in {3, 4}
    /\ pc = "done" => stages = StageOrder /\ error = "none"

\* a run went through the four stages
C27_Witness ==
    /\ pc = "done"
    /\ stages = StageOrder
    /\ llm_calls = 1

--------------------------------------------------------------------------
(* The routes upload_resume and structure_resume over the database.  A     *)
(* request holds its session's view of the upload it works on; uploads and *)
(* structured_resumes are the committed tables.  The handlers are cut at   *)
(* their status assignments and at the awaits at which another request can *)
(* run.                                                                    *)

MaxRequests == 3

NoStatus == "none"

\* the uploaded files, by what the checks of the route and the parser make of them
UploadFiles == {"cv.docx", "huge.pdf", "blank.md", "scan.pdf", "empty.tex", "cv.md"}

\* ParserFactory.is_supported
IsSupported(file) == file # "cv.docx"

\* len(content) <= settings.max_upload_size_bytes
WithinUploadSize(file) == file # "huge.pdf"

\* parser.validate_file
ValidateFileOk(file) == file # "blank.md"

\* parser.parse: it raises, or gives no text, or gives text
ParseOutcome(file) ==
    CASE file = "scan.pdf" -> "raises"
      [] file = "empty.tex" -> "empty"
      [] OTHER -> "text"

\* the rows of github_data
GithubDataIds == {1}

Store == [uploads |-> uploads, structured_resumes |-> structured_resumes]

NewRequest(kind, file, uid, gid) ==
    [kind |-> kind, file |-> file, resume_upload_id |-> uid, github_data_id |-> gid,
     pc |-> "raised", response |-> "none", status |-> NoStatus, error_message |-> FALSE,
     raw_text |-> "none", before |-> Store]

Raise(request, response) == [request EXCEPT !.pc = "raised", !.response = response]

\* upload_resume, lines 61-90: the checks, then the record is added with PARSING
upload_resume(file) ==
    /\ Len(requests) < MaxRequests
    /\ LET r == NewRequest("upload", file, 0, 0)
       IN  requests' = Append(requests,
               IF ~IsSupported(file) THEN Raise(r, "INVALID_FILE_TYPE")
               ELSE IF ~WithinUploadSize(file) THEN Raise(r, "FILE_TOO_LARGE")
               ELSE IF ~ValidateFileOk(file) THEN Raise(r, "PARSING_FAILED: validation")
               ELSE [r EXCEPT !.pc = "flushed", !.status = "PARSING"])
    /\ UNCHANGED <<uploads, structured_resumes>>
    /\ UNCHANGED <<pipelineVars, parserVars, rankerVars, promptVars, sanitizerVars>>

\* upload_resume, lines 93-104: the file is parsed and the record committed
upload_resume_parse(i) ==
    /\ i \in DOMAIN requests
    /\ requests[i].kind = "upload"
    /\ requests[i].pc = "flushed"
    /\ LET outcome == ParseOutcome(requests[i].file)
           id == Len(uploads) + 1
       IN  IF outcome = "raises"
           THEN /\ requests' = [requests EXCEPT ![i] =
                       [Raise(@, "PARSING_FAILED: parse") EXCEPT
                           !.status = "FAILED", !.error_message = TRUE,
                           !.resume_upload_id = id]]
                /\ uploads' = Append(uploads, [status |-> "FAILED", error_message |-> TRUE,
                                               raw_text |-> "none"])
           ELSE /\ requests' = [requests EXCEPT ![i] =
                       [@ EXCEPT !.pc = "returned", !.response = "ok", !.status = "PARSED",
                                 !.raw_text = outcome, !.resume_upload_id = id]]
                /\ uploads' = Append(uploads, [status |-> "PARSED", error_message |-> FALSE,
                                               raw_text |-> outcome])
    /\ UNCHANGED structured_resumes
    /\ UNCHANGED <<pipelineVars, parserVars, rankerVars, promptVars, sanitizerVars>>

\* a check that lets a failed upload be structured again
UploadReadyOrFailed(upload) == upload.status \in {"PARSED", "FAILED"}

\* line 205
UploadReady(upload) == upload.status = "PARSED"

\* structure_resume, lines 192-223: the precondition and the two loads
structure_resume(uid, gid) ==
    /\ Len(requests) < MaxRequests
    /\ LET r == NewRequest("structure", "none", uid, gid)
       IN  requests' = Append(requests,
               IF uid = 0 /\ gid = 0 THEN Raise(r, "VALIDATION_ERROR: no data source")
               ELSE IF uid # 0 /\ uid \notin DOMAIN uploads THEN Raise(r, "NOT_FOUND")
               ELSE IF uid # 0 /\ ~UploadReady(uploads[uid])
                    THEN Raise(r, "VALIDATION_ERROR: not ready")
               ELSE IF gid # 0 /\ gid \notin GithubDataIds THEN Raise(r, "NOT_FOUND")
               ELSE IF uid # 0
                    THEN [r EXCEPT !.pc = "loaded", !.status = uploads[uid].status,
                                   !.raw_text = uploads[uid].raw_text]
               ELSE [r EXCEPT !.pc = "loaded"])
    /\ UNCHANGED <<uploads, structured_resumes>>
    /\ UNCHANGED <<pipelineVars, parserVars, rankerVars, promptVars, sanitizerVars>>

\* lines 225-226
structure_resume_mark(i) ==
    /\ i \in DOMAIN requests
    /\ requests[i].kind = "structure"
    /\ requests[i].pc = "loaded"
    /\ requests' = [requests EXCEPT ![i] =
           [@ EXCEPT !.pc = "structuring",
                     !.status = IF @ = NoStatus THEN @ ELSE "STRUCTURING"]]
    /\ UNCHANGED <<uploads, structured_resumes>>
    /\ UNCHANGED <<pipelineVars, parserVars, rankerVars, promptVars, sanitizerVars>>

\* lines 228-257: the service is called; it raises when it has no data
\* source or the run fails, and otherwise the structured resume is flushed
structure_resume_call(i, llm_ok) ==
    /\ i \in DOMAIN requests
    /\ requests[i].kind = "structure"
    /\ requests[i].pc = "structuring"
    /\ LET r == requests[i]
           no_source == r.raw_text # "text" /\ r.github_data_id = 0
           failed(response) ==
               [Raise(r, response) EXCEPT
                   !.status = IF @ = NoStatus THEN @ ELSE "FAILED",
                   !.error_message = (r.status # NoStatus)]
       IN  requests' = [requests EXCEPT ![i] =
               IF no_source THEN failed("LLM_ERROR: precondition")
               ELSE IF ~llm_ok THEN failed("LLM_ERROR: call")
               ELSE [r EXCEPT !.pc = "flushed"]]
    /\ UNCHANGED <<uploads, structured_resumes>>
    /\ UNCHANGED <<pipelineVars, parserVars, rankerVars, promptVars, sanitizerVars>>

\* lines 259-271: COMPLETED, and the commit of the session
structure_resume_commit(i) ==
    /\ i \in DOMAIN requests
    /\ requests[i].kind = "structure"
    /\ requests[i].pc = "flushed"
    /\ LET uid == requests[i].resume_upload_id
       IN  /\ requests' = [requests EXCEPT ![i] =
                  [@ EXCEPT !.pc = "returned", !.response = "ok",
                            !.status = IF @ = NoStatus THEN @ ELSE "COMPLETED"]]
           /\ uploads' = IF uid = 0 THEN uploads
                         ELSE [uploads EXCEPT ![uid].status = "COMPLETED"]
           /\ structured_resumes' =
                  Append(structured_resumes,
                         [resume_upload_id |-> uid,
                          github_data_id |-> requests[i].github_data_id])
    /\ UNCHANGED <<pipelineVars, parserVars, rankerVars, promptVars, sanitizerVars>>

\* the session dependency app.core.database.get_db when the handler is left.
\* The handlers commit before they return; after an exception the changes
\* of the session that were not committed are either kept or dropped.
get_db_exit(i, keep) ==
    /\ i \in DOMAIN requests
    /\ requests[i].pc \in {"raised", "returned"}
    /\ requests' = [requests EXCEPT ![i].pc = "closed"]
    /\ LET r == requests[i]
           uid == r.resume_upload_id
       IN  uploads' =
               IF /\ keep
                  /\ r.pc = "raised"
                  /\ r.kind = "structure"
                  /\ r.status # NoStatus
               THEN [uploads EXCEPT ![uid].status = r.status,
                                    ![uid].error_message = r.error_message]
               ELSE uploads
    /\ UNCHANGED structured_resumes
    /\ UNCHANGED <<pipelineVars, parserVars, rankerVars, promptVars, sanitizerVars>>

InFlight == {i \in DOMAIN requests : requests[i].pc # "closed"}

InitStore ==
    /\ PipelineIdle
    /\ ParserIdle
    /\ ServicesIdle
    /\ StoreIdle

\* the ids a structure request names: none, the uploads, and one that is not there
UploadIds == 0..(Len(uploads) + 1)

GithubIds == {0, 1, 2}

\* one request after the other
NextStore ==
    \/ \E file \in UploadFiles : InFlight = {} /\ upload_resume(file)
    \/ \E i \in DOMAIN requests : upload_resume_parse(i)
    \/ \E uid \in UploadIds, gid \in GithubIds : InFlight = {} /\ structure_resume(uid, gid)
    \/ \E i \in DOMAIN requests : structure_resume_mark(i)
    \/ \E i \in DOMAIN requests, llm_ok \in BOOLEAN : structure_resume_call(i, llm_ok)
    \/ \E i \in DOMAIN requests : structure_resume_commit(i)
    \/ \E i \in DOMAIN requests, keep \in BOOLEAN : get_db_exit(i, keep)

SpecStore == InitStore /\ [][NextStore]_vars

\* an upload has been parsed
InitStoreConcurrent ==
    /\ PipelineIdle
    /\ ParserIdle
    /\ ServicesIdle
    /\ uploads = <<[status |-> "PARSED", error_message |-> FALSE, raw_text |-> "text"]>>
    /\ structured_resumes = <<>>
    /\ requests = <<>>

\* structure requests for the upload, each with a session of its own, that
\* take turns at the awaits
NextStoreConcurrent ==
    \/ \E gid \in {0, 1} : structure_resume(1, gid)
    \/ \E i \in DOMAIN requests : structure_resume_mark(i)
    \/ \E i \in DOMAIN requests, llm_ok \in BOOLEAN : structure_resume_call(i, llm_ok)
    \/ \E i \in DOMAIN requests : structure_resume_commit(i)
    \/ \E i \in DOMAIN requests, keep \in BOOLEAN : get_db_exit(i, keep)

SpecStoreConcurrent == InitStoreConcurrent /\ [][NextStoreConcurrent]_vars

\* the responses of a failed parse and of a failed data-source precondition
NoSideEffectResponses ==
    {"PARSING_FAILED: validation", "PARSING_FAILED: parse",
     "VALIDATION_ERROR: no data source", "LLM_ERROR: precondition"}

\* C26: a request that ended with a parsing error or with the error of the
\* at-least-one-data-source precondition has written nothing: the tables
\* are as they were when the request came in.
C26_FailedRequestsWriteNothing ==
    \A i \in DOMAIN requests :
        (/\ i = Len(requests)
         /\ requests[i].pc \in {"raised", "closed"}
         /\ requests[i].response \in NoSideEffectResponses)
        => Store = requests[i].before

StatusEdges ==
    {<<"PARSING", "PARSED">>, <<"PARSING", "FAILED">>, <<"PARSED", "STRUCTURING">>,
     <<"STRUCTURING", "COMPLETED">>, <<"STRUCTURING", "FAILED">>}

\* the handler went on past the status check with an upload
Accepted(request) ==
    request.kind = "structure" /\ request.resume_upload_id # 0 /\ request.pc = "loaded"

\* C29: over any sequence of upload and structure requests, the status a
\* request gives an upload changes only along PARSING to PARSED, PARSING to
\* FAILED, PARSED to STRUCTURING, STRUCTURING to COMPLETED and STRUCTURING to
\* FAILED, from PARSING for a new upload and from the stored PARSED for a
\* stored one; a structure request is accepted for an upload only while its
\* stored status is PARSED; and a stored COMPLETED or FAILED never changes.
C29_StatusLifecycle ==
    [][/\ \A i \in DOMAIN requests :
              requests'[i].status # requests[i].status
                  => <<requests[i].status, requests'[i].status>> \in StatusEdges
       /\ \A i \in DOMAIN requests' \ DOMAIN requests :
              LET r == requests'[i]
              IN  /\ r.kind = "upload" => r.status \in {NoStatus, "PARSING"}
                  /\ r.kind = "structure" =>
                         IF Accepted(r)
                         THEN /\ uploads[r.resume_upload_id].status = "PARSED"
                              /\ r.status = "PARSED"
                         ELSE r.status = NoStatus
       /\ \A u \in DOMAIN uploads :
              /\ uploads[u].status \in {"COMPLETED", "FAILED"}
                     => uploads'[u].status = uploads[u].status
              /\ uploads'[u].status # uploads[u].status
                     => /\ uploads[u].status = "PARSED"
                        /\ uploads'[u].status \in {"COMPLETED", "FAILED"}
                        /\ \E i \in DOMAIN requests :
                               /\ requests[i].resume_upload_id = u
                               /\ requests[i].status \in {"STRUCTURING", "FAILED"}
                               /\ requests'[i].status = uploads'[u].status
       /\ \A u \in DOMAIN uploads' \ DOMAIN uploads :
              /\ uploads'[u].status \in {"PARSED", "FAILED"}
              /\ \E i \in DOMAIN requests :
                     /\ requests[i].status = "PARSING"
                     /\ requests'[i].status = uploads'[u].status
      ]_vars

\* an upload was structured, and a later structure request for it turned away
C29_Witness ==
    \E i \in DOMAIN requests :
        /\ requests[i].response = "VALIDATION_ERROR: not ready"
        /\ requests[i].pc = "closed"
        /\ uploads[requests[i].resume_upload_id].status = "COMPLETED"
        /\ Len(structured_resumes) = 1

\* C30: however concurrent structure requests for one upload take turns,
\* at most one StructuredResume is created for the upload.
C30_OneStructuredResumePerUpload ==
    \A u \in DOMAIN uploads :
        Cardinality({k \in DOMAIN structured_resumes :
                         structured_resumes[k].resume_upload_id = u}) <= 1

====
